---- MODULE Spec2Model ----
(***************************************************************************)
(* A model of the numeric core of market-surfer: the rolling Mahalanobis   *)
(* stress engine (mahalanobis_regime.py), the percentile/regime and        *)
(* chi-squared scoring that follow it, and the rolling volatility and      *)
(* quartile classifier (volatility_analysis.py, vol_sp500components.py).   *)
(*                                                                         *)
(* Floating point.  The Mahalanobis stage is modelled in a binary          *)
(* floating-point format of reduced precision: a finite value is an        *)
(* integer number of units of 2^-FracBits carrying at most MantBits        *)
(* significant bits, every operation rounds to nearest (ties to even),     *)
(* magnitudes above MaxFinite overflow to an infinity, and NaN propagates, *)
(* as in IEEE 754.  The code runs the same operations in binary64.         *)
(***************************************************************************)
EXTENDS Integers, Sequences, FiniteSets, TLC

\* ------------------------------------------------------------------ bounds
MantBits == 4
FracBits == 4
MaxRows == 4
MaxWindow == 3
MaxSeries == 4
MaxDistance == 4
MaxValue == 3
MaxVolLen == 4
MaxCloseLen == 5
MaxN == 3
MaxFiles == 3
MaxRecords == 2
MaxObs == 2
MaxMainRows == 4
MaxPriceLen == 66
MaxVolRows == 3

\* ------------------------------------------------------- floating point
NaN == 1000000
PosInf == 900000
NegInf == -PosInf
One == 2^FracBits
MaxFinite == (2^MantBits - 1) * 2^(FracBits + 6)
\* The smallest normal number (LAPACK's dlamch('S')).
SafeMin == 2^(MantBits - 1)

Abs(x) == IF x < 0 THEN -x ELSE x
IsNaN(a) == a = NaN
IsInf(a) == a = PosInf \/ a = NegInf
IsFinite(a) == ~IsNaN(a) /\ ~IsInf(a)
Sign(a) == IF a = PosInf THEN 1 ELSE IF a = NegInf THEN -1
           ELSE IF a > 0 THEN 1 ELSE IF a < 0 THEN -1 ELSE 0
FNeg(a) == IF IsNaN(a) THEN NaN ELSE -a

RECURSIVE BitLen(_)
BitLen(n) == IF n = 0 THEN 0 ELSE 1 + BitLen(n \div 2)

\* num/den units (num >= 0, den > 0) rounded to MantBits significant bits.
RoundPos(num, den) ==
  LET q == num \div den
      r == num % den
      k == IF BitLen(q) > MantBits THEN BitLen(q) - MantBits ELSE 0
      m == q \div 2^k
      rem == q % 2^k
      up == IF k = 0
            THEN 2 * r > den \/ (2 * r = den /\ q % 2 = 1)
            ELSE rem > 2^(k-1) \/ (rem = 2^(k-1) /\ (r > 0 \/ m % 2 = 1))
      res == (IF up THEN m + 1 ELSE m) * 2^k
  IN IF res > MaxFinite THEN PosInf ELSE res

Round(num, den) == IF num < 0 THEN FNeg(RoundPos(-num, den)) ELSE RoundPos(num, den)

FAdd(a, b) ==
  IF IsNaN(a) \/ IsNaN(b) THEN NaN
  ELSE IF IsInf(a) THEN (IF IsInf(b) /\ b # a THEN NaN ELSE a)
  ELSE IF IsInf(b) THEN b
  ELSE Round(a + b, 1)

FSub(a, b) == FAdd(a, FNeg(b))

FMul(a, b) ==
  IF IsNaN(a) \/ IsNaN(b) THEN NaN
  ELSE IF IsInf(a) \/ IsInf(b) \/ (a # 0 /\ b # 0 /\ Abs(a) > (2 * MaxFinite * One) \div Abs(b))
       THEN (IF Sign(a) * Sign(b) = 0 THEN NaN
             ELSE IF Sign(a) * Sign(b) > 0 THEN PosInf ELSE NegInf)
  ELSE Round(a * b, One)

FDiv(a, b) ==
  IF IsNaN(a) \/ IsNaN(b) THEN NaN
  ELSE IF IsInf(a) THEN (IF IsInf(b) THEN NaN ELSE IF Sign(b) >= 0 THEN a ELSE FNeg(a))
  ELSE IF IsInf(b) THEN 0
  ELSE IF b = 0 THEN (IF a = 0 THEN NaN ELSE IF a > 0 THEN PosInf ELSE NegInf)
  ELSE IF b < 0 THEN Round(-(a * One), -b)
  ELSE Round(a * One, b)

\* a < b on floats: every comparison with NaN is false.
FLess(a, b) == ~IsNaN(a) /\ ~IsNaN(b) /\ a < b
FAbs(a) == IF IsNaN(a) THEN NaN ELSE Abs(a)

RECURSIVE ISqrtIter(_, _, _)
ISqrtIter(n, lo, hi) ==
  IF lo >= hi THEN lo
  ELSE LET mid == (lo + hi + 1) \div 2
       IN IF mid * mid <= n THEN ISqrtIter(n, mid, hi) ELSE ISqrtIter(n, lo, mid - 1)

ISqrt(n) == ISqrtIter(n, 0, 2^((BitLen(n) + 1) \div 2))

\* np.sqrt: correctly rounded; NaN for a negative argument.
FSqrt(a) ==
  IF IsNaN(a) \/ a = NegInf THEN NaN
  ELSE IF a = PosInf THEN PosInf
  ELSE IF a < 0 THEN NaN
  ELSE LET n == a * One
           s == ISqrt(n)
           k == IF BitLen(s) > MantBits THEN BitLen(s) - MantBits ELSE 0
       IN IF s * s = n THEN Round(s, 1)
          ELSE IF k = 0 THEN Round(IF n > s * s + s THEN s + 1 ELSE s, 1)
          ELSE Round((IF s % 2^k >= 2^(k-1) THEN s \div 2^k + 1 ELSE s \div 2^k) * 2^k, 1)

RECURSIVE FSumTo(_, _)
FSumTo(xs, n) == IF n = 0 THEN 0 ELSE FAdd(FSumTo(xs, n - 1), xs[n])
\* Sequential summation, as numpy reduces a short axis.
FSum(xs) == FSumTo(xs, Len(xs))

FromInt(n) == n * One

\* ------------------------------------------- calculate_mahalanobis_distance
\* df, window: the arguments; i: the loop index (0-based row position);
\* distances, dates: the two lists the loop appends to; visited: the history
\* of the candidates the loop has handled, with the window bounds it used.
\* args, ret: the arguments and the result of a function applied on its own.
VARIABLES df, window, i, distances, dates, visited, pc, args, ret
vars == <<df, window, i, distances, dates, visited, pc, args, ret>>
mahaVars == <<df, window, i, distances, dates, visited>>

Column(rows, j) == [r \in 1..Len(rows) |-> rows[r][j]]
HasNaN(row) == \E j \in 1..Len(row) : IsNaN(row[j])

\* df.iloc[lo:hi] for 0 <= lo <= hi: the rows with 0-based index in [lo, hi).
Iloc(frame, lo, hi) ==
  [r \in 1..((IF hi < Len(frame) THEN hi ELSE Len(frame)) - lo) |-> frame[lo + r]]

\* An expanding window: every row before candidate n, df.iloc[:n].
WindowDataExpanding(frame, n, w) == Iloc(frame, 0, n)

\* The covariance window of candidate row n: df.iloc[n-window:n].
WindowLo(n, w) == n - w
WindowHi(n, w) == n
WindowData(frame, n, w) == Iloc(frame, WindowLo(n, w), WindowHi(n, w))
CurrentPoint(frame, n) == frame[n + 1]

\* range(window + 1, len(df)): the first candidate one row late.
RangeStartPlusOne(w) == w + 1
\* range(window, len(df)) starts at row `window`.
RangeStart(w) == w
InRange(n, frame) == n < Len(frame)

\* window_data.isna().any().any() or np.any(np.isnan(current_point))
AnyNaN(win, cur) == (\E r \in 1..Len(win) : HasNaN(win[r])) \/ HasNaN(cur)

\* Series.mean(): the sum over the count.
FMean(xs) == FDiv(FSum(xs), FromInt(Len(xs)))
ColumnMeans(rows) == [j \in 1..Len(rows[1]) |-> FMean(Column(rows, j))]

\* DataFrame.cov() of a frame without missing values is np.cov(mat.T, ddof=1):
\* subtract the column averages, take the dot products, scale by 1/(N-1).
NpCov(rows) ==
  LET W == Len(rows)
      C == Len(rows[1])
      avg == ColumnMeans(rows)
      dev == [r \in 1..W |-> [j \in 1..C |-> FSub(rows[r][j], avg[j])]]
      rf == IF W - 1 > 0 THEN FDiv(One, FromInt(W - 1)) ELSE PosInf
      dot(j, k) == FSum([r \in 1..W |-> FMul(dev[r][j], dev[r][k])])
  IN [j \in 1..C |-> [k \in 1..C |-> FMul(dot(j, k), rf)]]

\* np.linalg.inv on a 1x1 matrix: LAPACK gesv against the identity; a pivot
\* that is exactly zero is the only thing reported as singular.
Inv1(A) ==
  [ok |-> A[1][1] # 0, m |-> << <<FDiv(One, A[1][1])>> >>]

\* np.linalg.inv on a 2x2 matrix: LU with partial pivoting (getrf), the
\* multiplier scaled by the pivot's reciprocal when the pivot is >= SafeMin,
\* then the two triangular solves for each column of the identity (getrs).
Inv2(A) ==
  LET p == IF FLess(FAbs(A[1][1]), FAbs(A[2][1])) THEN 2 ELSE 1
      r0 == A[p]
      r1 == A[3 - p]
      l == IF ~IsNaN(r0[1]) /\ Abs(r0[1]) >= SafeMin
           THEN FMul(r1[1], FDiv(One, r0[1]))
           ELSE FDiv(r1[1], r0[1])
      u11 == FSub(r1[2], FMul(l, r0[2]))
      x1(c) == FDiv(FSub(IF c = 3 - p THEN One ELSE 0,
                         FMul(l, IF c = p THEN One ELSE 0)), u11)
      x0(c) == FDiv(FSub(IF c = p THEN One ELSE 0, FMul(r0[2], x1(c))), r0[1])
  IN [ok |-> r0[1] # 0 /\ u11 # 0,
      m |-> << <<x0(1), x0(2)>>, <<x1(1), x1(2)>> >>]

LinalgInv(A) == IF Len(A) = 1 THEN Inv1(A) ELSE Inv2(A)

\* diff @ inv_cov @ diff.T, left to right.
QuadForm(diff, inv) ==
  LET C == Len(diff)
      t == [k \in 1..C |-> FSum([j \in 1..C |-> FMul(diff[j], inv[j][k])])]
  IN FSum([k \in 1..C |-> FMul(t[k], diff[k])])

Diff(cur, mean) == [j \in 1..Len(cur) |-> FSub(cur[j], mean[j])]

\* dist = np.sqrt(diff @ inv_cov @ diff.T)
Distance(win, cur, inv) == FSqrt(QuadForm(Diff(cur, ColumnMeans(win)), inv))

\* The values a cell of the input matrix is drawn from: 1.0, 3.0 or missing.
CellInts == {1, 3}
Cells == {FromInt(n) : n \in CellInts} \cup {NaN}
\* The rows of a frame of C columns; with two columns, three points that are
\* not on one line and a row with a missing value (the computation treats
\* the columns, and the values beside a missing one, alike).
RowsOf(C) ==
  IF C = 1 THEN {<<a>> : a \in Cells}
  ELSE {<<FromInt(1), FromInt(1)>>, <<FromInt(1), FromInt(3)>>,
        <<FromInt(3), FromInt(1)>>, <<NaN, FromInt(1)>>}
Matrices == UNION {[1..R -> RowsOf(C)] : R \in 0..MaxRows, C \in 1..2}

MahaIdle ==
  /\ df = <<>> /\ window = 0 /\ i = 0
  /\ distances = <<>> /\ dates = <<>> /\ visited = <<>>

InitMaha ==
  /\ df \in Matrices
  /\ window \in 1..MaxWindow
  /\ i = RangeStart(window)
  /\ distances = <<>> /\ dates = <<>> /\ visited = <<>>
  /\ pc = "loop"
  /\ args = <<>> /\ ret = <<>>

Visit(n, what) ==
  [row |-> n, lo |-> WindowLo(n, window), hi |-> WindowHi(n, window), outcome |-> what]

\* Lines 157-159: a missing value in the window or the current row: continue.
MahaSkipNaN ==
  /\ pc = "loop" /\ InRange(i, df)
  /\ AnyNaN(WindowData(df, i, window), CurrentPoint(df, i))
  /\ i' = i + 1
  /\ visited' = Append(visited, Visit(i, "nan"))
  /\ UNCHANGED <<df, window, distances, dates, pc, args, ret>>

\* Lines 165-169: np.linalg.inv raised LinAlgError: continue.
MahaSkipSingular ==
  /\ pc = "loop" /\ InRange(i, df)
  /\ ~AnyNaN(WindowData(df, i, window), CurrentPoint(df, i))
  /\ ~LinalgInv(NpCov(WindowData(df, i, window))).ok
  /\ i' = i + 1
  /\ visited' = Append(visited, Visit(i, "singular"))
  /\ UNCHANGED <<df, window, distances, dates, pc, args, ret>>

\* Lines 171-176: the distance and the date are appended.
MahaAppend ==
  /\ pc = "loop" /\ InRange(i, df)
  /\ ~AnyNaN(WindowData(df, i, window), CurrentPoint(df, i))
  /\ LET inv == LinalgInv(NpCov(WindowData(df, i, window)))
     IN /\ inv.ok
        /\ distances' = Append(distances,
                               Distance(WindowData(df, i, window), CurrentPoint(df, i), inv.m))
  /\ dates' = Append(dates, i)
  /\ i' = i + 1
  /\ visited' = Append(visited, Visit(i, "appended"))
  /\ UNCHANGED <<df, window, pc, args, ret>>

\* Line 178: the loop is over; the series is returned.
MahaReturn ==
  /\ pc = "loop" /\ ~InRange(i, df)
  /\ pc' = "done"
  /\ UNCHANGED <<mahaVars, args, ret>>

NextMaha == MahaSkipNaN \/ MahaSkipSingular \/ MahaAppend \/ MahaReturn
SpecMaha == InitMaha /\ [][NextMaha]_vars

\* ------------------------------------------------ assign_percentile_buckets
\* A percentile is the exact rational n/d; d = 0 is NaN.  (In binary64 the
\* quotient rank/count and its product with 100 are each rounded; the error
\* is of the order of 1e-14.)
NaNPct == [n |-> 0, d |-> 0]
\* pct <= threshold; false for NaN.
PctLeq(p, t) == p.d > 0 /\ p.n <= t * p.d

RECURSIVE SumTo(_, _)
SumTo(f, n) == IF n = 0 THEN 0 ELSE SumTo(f, n - 1) + f[n]

\* The indices of the defined values of ds in ascending order of value
\* (a stable sort, as rank's argsort).
RECURSIVE SortedIdx(_, _)
SortedIdx(ds, todo) ==
  IF todo = {} THEN <<>>
  ELSE LET m == CHOOSE j \in todo :
                  \A o \in todo : ds[j] < ds[o] \/ (ds[j] = ds[o] /\ j <= o)
       IN <<m>> \o SortedIdx(ds, todo \ {m})

\* rank with method 'max': every member of a tie group gets its last position.
RankPctMax(ds, k) ==
  IF IsNaN(ds[k]) THEN NaNPct
  ELSE LET valid == {j \in 1..Len(ds) : ~IsNaN(ds[j])}
       IN [n |-> 100 * Cardinality({j \in valid : ds[j] <= ds[k]}), d |-> Cardinality(valid)]

\* rank(ascending=False): the largest distance ranked first.
RankPctDescending(ds, k) ==
  IF IsNaN(ds[k]) THEN NaNPct
  ELSE LET valid == {j \in 1..Len(ds) : ~IsNaN(ds[j])}
           above == Cardinality({j \in valid : ds[j] > ds[k]})
           equal == Cardinality({j \in valid : ds[j] = ds[k]})
       IN [n |-> 100 * (2 * above + equal + 1), d |-> 2 * Cardinality(valid)]

\* Series.rank(pct=True) * 100, method 'average', NaN kept: the mean of the
\* 1-based sorted positions of the observation's tie group, over the count
\* of defined values, times 100.
RankPct(ds, k) ==
  IF IsNaN(ds[k]) THEN NaNPct
  ELSE LET order == SortedIdx(ds, {j \in 1..Len(ds) : ~IsNaN(ds[j])})
           group == {pos \in 1..Len(order) : ds[order[pos]] = ds[k]}
           sum_ranks == SumTo([pos \in 1..Len(order) |-> IF pos \in group THEN pos ELSE 0],
                              Len(order))
       IN [n |-> 100 * sum_ranks, d |-> Cardinality(group) * Len(order)]

None == "None"
DefaultBuckets ==
  << <<50, "Normal">>, <<75, "Elevated">>, <<90, "High">>, <<100, "Extreme">> >>
\* if buckets is None: the default mapping.  (<<>> stands for None.)
Buckets(b) == IF b = <<>> THEN DefaultBuckets ELSE b
\* A dict given as its items in insertion order.
Keys(b) == {b[k][1] : k \in 1..Len(b)}
Lookup(b, key) == b[CHOOSE k \in 1..Len(b) : b[k][1] = key][2]

\* sorted(buckets.keys())
RECURSIVE Sorted(_)
Sorted(S) ==
  IF S = {} THEN <<>>
  ELSE LET m == CHOOSE x \in S : \A y \in S : x <= y
       IN <<m>> \o Sorted(S \ {m})

MaxKey(b) == CHOOSE x \in Keys(b) : \A y \in Keys(b) : y <= x

RECURSIVE WalkThresholds(_, _, _, _)
WalkThresholds(pct, b, keys, k) ==
  IF k > Len(keys) THEN Lookup(b, MaxKey(b))
  ELSE IF PctLeq(pct, keys[k]) THEN Lookup(b, keys[k])
  ELSE WalkThresholds(pct, b, keys, k + 1)

\* assign_regime walking the keys in the order of insertion.
AssignRegimeUnsorted(pct, b) == WalkThresholds(pct, b, [k \in 1..Len(b) |-> b[k][1]], 1)
\* assign_regime without the return after the loop: Python's None.
AssignRegimeNoFallback(pct, b) ==
  IF \E c \in Keys(b) : PctLeq(pct, c) THEN WalkThresholds(pct, b, Sorted(Keys(b)), 1) ELSE None

\* assign_regime(pct): the first threshold, ascending, with pct <= threshold;
\* after the loop, the label of the largest threshold.
AssignRegime(pct, b) == WalkThresholds(pct, b, Sorted(Keys(b)), 1)

\* assign_percentile_buckets(distances, buckets): one row per observation.
AssignPercentileBuckets(ds, b) ==
  [k \in 1..Len(ds) |->
     [date |-> k, distance |-> ds[k], percentile |-> RankPct(ds, k),
      regime |-> AssignRegime(RankPct(ds, k), Buckets(b))]]

\* regime_df['regime'].value_counts(): the count of each label present
\* (missing labels are dropped).
ValueCounts(frame) ==
  [l \in {frame[k].regime : k \in 1..Len(frame)} \ {None} |->
     Cardinality({k \in 1..Len(frame) : frame[k].regime = l})]

\* The distances of a series: 0.0, 1.0, 2.0 or NaN.
DistanceValues == {FromInt(0), FromInt(1), FromInt(2), NaN}
SeriesSet == UNION {[1..n -> DistanceValues] : n \in 0..MaxSeries}
\* The bucket mappings: any non-empty selection of the default items, in any
\* order of insertion, or None.
BucketSet ==
  {b \in UNION {[1..n -> {DefaultBuckets[k] : k \in 1..4}] : n \in 1..4} :
     \A x, y \in 1..Len(b) : x # y => b[x] # b[y]} \cup {<<>>}

InitPct ==
  /\ MahaIdle
  /\ pc = "call"
  /\ args \in [distances : SeriesSet, buckets : BucketSet]
  /\ ret = <<>>

CallAssignPercentileBuckets ==
  /\ pc = "call"
  /\ ret' = AssignPercentileBuckets(args.distances, args.buckets)
  /\ pc' = "return"
  /\ UNCHANGED <<mahaVars, args>>

NextPct == CallAssignPercentileBuckets
SpecPct == InitPct /\ [][NextPct]_vars

\* ---------------------------------------------------- calculate_chi2_pvalue
\* Probabilities are in units of 1e-5.
ScoreOne == 100000
\* scipy.stats.chi2.cdf(d * d, dof) for d = 0 .. 6 and dof = 1, 2, 3, rounded
\* to 1e-5.
Chi2CdfTable ==
  << <<0, 68269, 95450, 99730, 99994, 100000, 100000>>,
     <<0, 39347, 86466, 98889, 99966, 100000, 100000>>,
     <<0, 19875, 73854, 97071, 99887, 99998, 100000>> >>
Chi2Cdf(x, k) == IF IsNaN(x) THEN NaN ELSE Chi2CdfTable[k][ISqrt(x) + 1]
\* distances ** 2
Square(d) == IF IsNaN(d) THEN NaN ELSE d * d
OneMinus(x) == IF IsNaN(x) THEN NaN ELSE ScoreOne - x
\* pvalues = 1 - chi2.cdf(distances_sq, dof); stress = 1 - pvalues
StressScore(d, k) == OneMinus(OneMinus(Chi2Cdf(Square(d), k)))
CalculateChi2Pvalue(ds, k) == [j \in 1..Len(ds) |-> StressScore(ds[j], k)]

\* Distances here are whole numbers 0 .. MaxDistance, or NaN.
Chi2Series == UNION {[1..n -> (0..MaxDistance) \cup {NaN}] : n \in 0..MaxSeries}

InitChi2 ==
  /\ MahaIdle
  /\ pc = "call"
  /\ args \in [distances : Chi2Series, dof : 1..3]
  /\ ret = <<>>

CallCalculateChi2Pvalue ==
  /\ pc = "call"
  /\ ret' = CalculateChi2Pvalue(args.distances, args.dof)
  /\ pc' = "return"
  /\ UNCHANGED <<mahaVars, args>>

NextChi2 == CallCalculateChi2Pvalue
SpecChi2 == InitChi2 /\ [][NextChi2]_vars

\* --------------------------------------- calculate_quartiles, assign_quartile
\* Volatility values and breakpoints are in quarter units, so that the
\* linear interpolation at 0.25, 0.50 and 0.75 is exact.
\* Series.quantile(1 - num / 4): the order statistics counted from the top.
QuantileFromTop(series, num) ==
  LET order == SortedIdx(series, 1..Len(series))
      pos == (Len(series) - 1) * (4 - num)
      lo == pos \div 4
      fr == pos % 4
  IN IF fr = 0 THEN series[order[lo + 1]]
     ELSE series[order[lo + 1]]
            + ((series[order[lo + 2]] - series[order[lo + 1]]) * fr) \div 4

\* Series.quantile(num / 4), linear interpolation between order statistics.
Quantile(series, num) ==
  LET order == SortedIdx(series, 1..Len(series))
      pos == (Len(series) - 1) * num
      lo == pos \div 4
      fr == pos % 4
  IN IF fr = 0 THEN series[order[lo + 1]]
     ELSE series[order[lo + 1]]
            + ((series[order[lo + 2]] - series[order[lo + 1]]) * fr) \div 4

CalculateQuartiles(series) ==
  <<Quantile(series, 1), Quantile(series, 2), Quantile(series, 3)>>

\* assign_quartile with strict comparisons: a boundary value goes up.
AssignQuartileStrict(value, q1, q2, q3) ==
  IF IsNaN(value) THEN None
  ELSE IF value < q1 THEN "Q1 (Low)"
  ELSE IF value < q2 THEN "Q2 (Medium-Low)"
  ELSE IF value < q3 THEN "Q3 (Medium-High)"
  ELSE "Q4 (High)"

\* assign_quartile testing the second breakpoint before the first.
AssignQuartileSwapped(value, q1, q2, q3) ==
  IF IsNaN(value) THEN None
  ELSE IF value <= q2 THEN "Q2 (Medium-Low)"
  ELSE IF value <= q1 THEN "Q1 (Low)"
  ELSE IF value <= q3 THEN "Q3 (Medium-High)"
  ELSE "Q4 (High)"

\* volatility_analysis.assign_quartile
AssignQuartileVA(value, q1, q2, q3) ==
  IF IsNaN(value) THEN None
  ELSE IF value <= q1 THEN "Q1 (Low)"
  ELSE IF value <= q2 THEN "Q2 (Medium-Low)"
  ELSE IF value <= q3 THEN "Q3 (Medium-High)"
  ELSE "Q4 (High)"

\* vol_sp500components.assign_quartile
AssignQuartileSP(value, q1, q2, q3) ==
  IF IsNaN(value) THEN None
  ELSE IF value <= q1 THEN "Q1 (Low)"
  ELSE IF value <= q2 THEN "Q2 (Medium-Low)"
  ELSE IF value <= q3 THEN "Q3 (Medium-High)"
  ELSE "Q4 (High)"

\* A finalized volatility series: whole values 0 .. MaxValue (in quarter
\* units 0, 4, ..), NaN dropped; the value classified is any quarter or NaN.
VolValues == {4 * n : n \in 0..MaxValue}
VolSeriesSet == UNION {[1..n -> VolValues] : n \in 1..MaxVolLen}

InitQuart ==
  /\ MahaIdle
  /\ pc = "call"
  /\ args \in [series : VolSeriesSet, value : (0..(4 * MaxValue + 1)) \cup {NaN}]
  /\ ret = <<>>

\* q1, q2, q3 = calculate_quartiles(vol_data); assign_quartile(val, q1, q2, q3)
CallAssignQuartile ==
  /\ pc = "call"
  /\ LET q == CalculateQuartiles(args.series)
     IN ret' = [q |-> q,
                va |-> AssignQuartileVA(args.value, q[1], q[2], q[3]),
                sp |-> AssignQuartileSP(args.value, q[1], q[2], q[3])]
  /\ pc' = "return"
  /\ UNCHANGED <<mahaVars, args>>

NextQuart == CallAssignQuartile
SpecQuart == InitQuart /\ [][NextQuart]_vars

\* ------------------------------ volatility_analysis.calculate_volatility
\* Log returns are in units of 1e-3, the others in basis points; prices are
\* positive whole numbers.
\* np.log(cur / prev) for prices 1 .. 3, rounded to 1e-3.
LnRatio(cur, prev) ==
  << <<0, -693, -1099>>, <<693, 0, -405>>, <<1099, 405, 0>> >>[cur][prev]

\* return[t] with the two difference-scaled formulas exchanged.
ReturnOfUnitsSwapped(method, is_fred, cur, prev) ==
  IF method = "log" THEN LnRatio(cur, prev)
  ELSE IF is_fred THEN (10000 * (cur - prev)) \div prev
  ELSE 100 * (cur - prev)

\* The return at a row with a previous row (lines 169-178).
ReturnOf(method, is_fred, cur, prev) ==
  IF method = "log" THEN LnRatio(cur, prev)
  ELSE IF is_fred THEN 100 * (cur - prev)
  ELSE (10000 * (cur - prev)) \div prev

\* df['Returns']: shift(1) / pct_change leave the first row undefined.
Returns(close, method, is_fred) ==
  [t \in 1..Len(close) |->
     IF t = 1 THEN NaN ELSE ReturnOf(method, is_fred, close[t], close[t - 1])]

\* rolling(window=N, closed='left'): the N observations before row t.
RollingFullClosedLeft(r, t, N) ==
  t > N /\ \A u \in (t - N)..(t - 1) : ~IsNaN(r[u])

\* rolling(window=N): min_periods defaults to N, so the window ending at row
\* t yields a value only if it holds N defined observations.
RollingFull(r, t, N) ==
  t >= N /\ \A u \in (t - N + 1)..t : ~IsNaN(r[u])

WindowSum(r, t, N) == SumTo([u \in 1..N |-> IF IsNaN(r[t - N + u]) THEN 0 ELSE r[t - N + u]], N)
WindowSumSq(r, t, N) ==
  SumTo([u \in 1..N |-> IF IsNaN(r[t - N + u]) THEN 0 ELSE r[t - N + u] * r[t - N + u]], N)

\* rolling(N).mean()
RollMean(r, t, N) == IF RollingFull(r, t, N) THEN WindowSum(r, t, N) \div N ELSE NaN

\* np.sqrt(rolling(N).var(ddof=1)) * np.sqrt(252); a sample variance needs
\* more than one observation.  (sqrt(252) = 15.875.)
RollVol(r, t, N) ==
  IF RollingFull(r, t, N) /\ N > 1
  THEN (ISqrt((N * WindowSumSq(r, t, N) - WindowSum(r, t, N) * WindowSum(r, t, N))
                \div (N * (N - 1))) * 15875) \div 1000
  ELSE NaN

\* calculate_volatility(df, windows, method, is_fred_data): the frame's
\* Returns column and, for each window N, RollMean and Vol.
CalculateVolatility(close, windows, method, is_fred) ==
  LET r == Returns(close, method, is_fred)
  IN [Returns |-> r,
      RollMean |-> [N \in windows |-> [t \in 1..Len(close) |-> RollMean(r, t, N)]],
      Vol |-> [N \in windows |-> [t \in 1..Len(close) |-> RollVol(r, t, N)]]]

\* vol_sp500components.calculate_volatility answering 0 for a short series.
CalculateVolatilitySPZero(prices, method) == 0

\* vol_sp500components.calculate_volatility(prices, method): one annualized
\* volatility for the whole series (returns in units of 1e-3), NaN for fewer
\* than two prices; np.std(ddof=1) of a single return is NaN too.
CalculateVolatilitySP(prices, method) ==
  IF Len(prices) < 2 THEN NaN
  ELSE LET n == Len(prices) - 1
           returns == [t \in 1..n |->
                         IF method = "log" THEN LnRatio(prices[t + 1], prices[t])
                         ELSE (1000 * (prices[t + 1] - prices[t])) \div prices[t]]
       IN IF n = 0 \/ n = 1 THEN NaN
          ELSE (ISqrt((n * WindowSumSq(returns, n, n)
                         - WindowSum(returns, n, n) * WindowSum(returns, n, n))
                        \div (n * (n - 1))) * 15875) \div 1000

Prices == {1, 2}
CloseSet == UNION {[1..n -> Prices] : n \in 0..MaxCloseLen}

InitVol ==
  /\ MahaIdle
  /\ pc = "call"
  /\ args \in [close : CloseSet, windows : (SUBSET (1..MaxN)) \ {{}},
               method : {"log", "bps"}, is_fred : BOOLEAN]
  /\ ret = <<>>

CallCalculateVolatility ==
  /\ pc = "call"
  /\ ret' = [sp |-> CalculateVolatilitySP(args.close, args.method)]
               @@ CalculateVolatility(args.close, args.windows, args.method, args.is_fred)
  /\ pc' = "return"
  /\ UNCHANGED <<mahaVars, args>>

NextVol == CallCalculateVolatility
SpecVol == InitVol /\ [][NextVol]_vars

Defined(ds) == {j \in 1..Len(ds) : ~IsNaN(ds[j])}
NumLeq(ds, k) == Cardinality({j \in Defined(ds) : ~IsNaN(ds[k]) /\ ds[j] <= ds[k]})
NumLess(ds, k) == Cardinality({j \in Defined(ds) : ~IsNaN(ds[k]) /\ ds[j] < ds[k]})
NumEqual(ds, k) == NumLeq(ds, k) - NumLess(ds, k)

\* C4 as stated: in a series of defined distances every observation's
\* percentile is 100 * (number of distances <= its distance) / (number of
\* distances), ties included.
C4_PercentileIsFractionLeq ==
  (pc = "return" /\ \A j \in 1..Len(args.distances) : ~IsNaN(args.distances[j])) =>
    \A k \in 1..Len(ret) :
      /\ ret[k].percentile.d > 0
      /\ ret[k].percentile.n * Len(args.distances)
           = 100 * NumLeq(args.distances, k) * ret[k].percentile.d

\* C4 amended: with n the number of defined distances of the whole series,
\* L the number strictly smaller than distance[i] and E the number equal to
\* it, a defined distance gets 100 * (L + (E + 1) / 2) / n (the average of the
\* ranks its tie group spans; 100 * (number <= distance[i]) / n when it is
\* tied with no other), and an undefined distance an undefined percentile.
C4_PercentileIsAverageRank ==
  pc = "return" =>
    /\ Len(ret) = Len(args.distances)
    /\ \A k \in 1..Len(ret) :
         LET ds == args.distances
             p == ret[k].percentile
         IN /\ ret[k].distance = ds[k]
            /\ IsNaN(ds[k]) <=> p.d = 0
            /\ ~IsNaN(ds[k]) =>
                 /\ p.n * 2 * Cardinality(Defined(ds))
                      = 100 * (2 * NumLess(ds, k) + NumEqual(ds, k) + 1) * p.d
                 /\ NumEqual(ds, k) = 1 =>
                      p.n * Cardinality(Defined(ds)) = 100 * NumLeq(ds, k) * p.d

C4_Witness ==
  /\ pc = "return" /\ Len(ret) >= 3
  /\ \E j, k \in 1..Len(ret) :
       j # k /\ ~IsNaN(ret[j].distance) /\ ret[j].distance = ret[k].distance
  /\ \E k \in 1..Len(ret) : NumEqual(args.distances, k) = 1

Items(b) == {b[k] : k \in 1..Len(b)}
\* The same mapping with its keys supplied in another order.
Reverse(b) == [k \in 1..Len(b) |-> b[Len(b) + 1 - k]]
Rotate(b) == [k \in 1..Len(b) |-> b[(k % Len(b)) + 1]]
Fitting(p, b) == {c \in Keys(b) : PctLeq(p, c)}
MinOf(S) == CHOOSE x \in S : \A y \in S : x <= y
\* 100 * lo < p, for a defined p.
PctAbove(p, t) == p.d > 0 /\ p.n > t * p.d

\* C5: the regime is the label of the smallest ceiling c with p <= c, or the
\* label of the largest ceiling when there is none, whatever the order in
\* which the mapping's keys were supplied; under the default mapping Normal
\* for p <= 50, Elevated for 50 < p <= 75, High for 75 < p <= 90, Extreme
\* for 90 < p <= 100.
C5_SmallestCeiling ==
  pc = "return" =>
    \A k \in 1..Len(ret) :
      LET p == ret[k].percentile
          b == Buckets(args.buckets)
          r == ret[k].regime
      IN /\ r = IF Fitting(p, b) # {} THEN Lookup(b, MinOf(Fitting(p, b)))
               ELSE Lookup(b, MaxKey(b))
         /\ AssignRegime(p, Reverse(b)) = r
         /\ AssignRegime(p, Rotate(b)) = r
         /\ Items(b) = Items(DefaultBuckets) =>
              /\ PctLeq(p, 50) => r = "Normal"
              /\ PctAbove(p, 50) /\ PctLeq(p, 75) => r = "Elevated"
              /\ PctAbove(p, 75) /\ PctLeq(p, 90) => r = "High"
              /\ PctAbove(p, 90) /\ PctLeq(p, 100) => r = "Extreme"

C5_Witness ==
  /\ pc = "return" /\ Len(args.buckets) >= 3
  /\ args.buckets[1][1] > args.buckets[2][1]
  /\ \E k \in 1..Len(ret) : Fitting(ret[k].percentile, args.buckets) = {}
  /\ \E k \in 1..Len(ret) :
       /\ Cardinality(Fitting(ret[k].percentile, args.buckets)) >= 2
       /\ ~PctLeq(ret[k].percentile, args.buckets[1][1])

RECURSIVE SumOver(_, _)
SumOver(f, S) ==
  IF S = {} THEN 0
  ELSE LET x == CHOOSE y \in S : TRUE IN f[x] + SumOver(f, S \ {x})

\* C6: every observation carries exactly one label of the mapping; the
\* per-label counts add up to the number of observations and the per-label
\* percentages 100 * count / total add up to 100.
C6_LabelsPartitionSeries ==
  pc = "return" =>
    LET counts == ValueCounts(ret)
        labels == {x[2] : x \in Items(Buckets(args.buckets))}
    IN /\ \A k \in 1..Len(ret) : ret[k].regime \in labels
       /\ DOMAIN counts \subseteq labels
       /\ SumOver(counts, DOMAIN counts) = Len(ret)
       /\ Len(ret) > 0 =>
            SumOver([l \in DOMAIN counts |-> 100 * counts[l]], DOMAIN counts) = 100 * Len(ret)

C6_Witness ==
  /\ pc = "return" /\ Len(ret) >= 3
  /\ Cardinality(DOMAIN ValueCounts(ret)) >= 2
  /\ \E k \in 1..Len(ret) : Fitting(ret[k].percentile, Buckets(args.buckets)) = {}

\* C7: for a fixed number of degrees of freedom every stress score lies in
\* [0, 1] and the score is non-decreasing in the distance.
C7_StressMonotoneInUnitInterval ==
  pc = "return" =>
    /\ \A k \in 1..Len(ret) : ~IsNaN(ret[k]) /\ 0 <= ret[k] /\ ret[k] <= ScoreOne
    /\ \A j, k \in 1..Len(ret) :
         FLess(args.distances[j], args.distances[k]) => ret[j] <= ret[k]

\* C7 for the defined distances alone: their scores lie in [0, 1] and are
\* non-decreasing in the distance; an undefined distance has an undefined
\* score.
C7_DefinedDistances ==
  pc = "return" =>
    /\ \A k \in 1..Len(ret) :
         IF IsNaN(args.distances[k]) THEN IsNaN(ret[k])
         ELSE 0 <= ret[k] /\ ret[k] <= ScoreOne
    /\ \A j, k \in 1..Len(ret) :
         FLess(args.distances[j], args.distances[k]) => ret[j] <= ret[k]

QuartileLabels == {"Q1 (Low)", "Q2 (Medium-Low)", "Q3 (Medium-High)", "Q4 (High)"}

\* C8: a value equal to a breakpoint falls in the lower bucket (v = q1: Q1;
\* v = q2 with q1 < q2: Q2; v = q3 with q2 < q3: Q3), only v > q3 yields Q4,
\* and the two copies of assign_quartile agree.
C8_InclusiveUpperBounds ==
  pc = "return" =>
    LET v == args.value
        q1 == ret.q[1]
        q2 == ret.q[2]
        q3 == ret.q[3]
    IN /\ ret.va = ret.sp
       /\ \A l \in {ret.va, ret.sp} :
            /\ v = q1 => l = "Q1 (Low)"
            /\ (v = q2 /\ q1 < q2) => l = "Q2 (Medium-Low)"
            /\ (v = q3 /\ q2 < q3) => l = "Q3 (Medium-High)"
            /\ l = "Q4 (High)" <=> (~IsNaN(v) /\ v > q3)

C8_Witness ==
  /\ pc = "return"
  /\ args.value = ret.q[2] /\ ret.q[1] < ret.q[2] /\ ret.q[2] < ret.q[3]
  /\ ret.va = "Q2 (Medium-Low)" /\ ret.sp = "Q2 (Medium-Low)"

LabelRank(l) ==
  CASE l = "Q1 (Low)" -> 1 [] l = "Q2 (Medium-Low)" -> 2
    [] l = "Q3 (Medium-High)" -> 3 [] l = "Q4 (High)" -> 4 [] OTHER -> 0

\* C9: the breakpoints of a finalized series are ordered; every defined
\* value gets exactly one of the four labels, the one whose condition
\* (v <= q1, q1 < v <= q2, q2 < v <= q3, v > q3) it meets, exactly one of
\* which holds; the label is non-decreasing in the value; only NaN gets none.
C9_CompletePartition ==
  pc = "return" =>
    LET v == args.value
        q1 == ret.q[1]
        q2 == ret.q[2]
        q3 == ret.q[3]
        conds == <<v <= q1, q1 < v /\ v <= q2, q2 < v /\ v <= q3, v > q3>>
    IN /\ q1 <= q2 /\ q2 <= q3
       /\ IsNaN(v) <=> ret.va = None
       /\ ~IsNaN(v) =>
            /\ ret.va \in QuartileLabels
            /\ Cardinality({c \in 1..4 : conds[c]}) = 1
            /\ conds[LabelRank(ret.va)]
            /\ \A w \in 0..(4 * MaxValue + 1) :
                 v <= w => LabelRank(ret.va) <= LabelRank(AssignQuartileVA(w, q1, q2, q3))

C9_Witness ==
  /\ pc = "return" /\ ~IsNaN(args.value)
  /\ ret.q[1] < ret.q[2] /\ ret.q[2] < ret.q[3]
  /\ ret.q[2] < args.value /\ args.value < ret.q[3]
  /\ ret.va = "Q3 (Medium-High)"

\* The number of returns of the price series.
NumReturns == IF Len(args.close) = 0 THEN 0 ELSE Len(args.close) - 1
DefinedAt(col) == {t \in 1..Len(col) : ~IsNaN(col[t])}

\* C10 as stated: for L returns and a window N <= L there are exactly L - N
\* defined rolling values, the first at the (N+1)-th return (row N + 2 of the
\* frame), all volatilities >= 0, every earlier position undefined.
C10_DefinedFromReturnNPlus1 ==
  pc = "return" =>
    \A N \in args.windows :
      N <= NumReturns =>
        /\ DefinedAt(ret.Vol[N]) = (N + 2)..Len(args.close)
        /\ DefinedAt(ret.RollMean[N]) = (N + 2)..Len(args.close)
        /\ Cardinality(DefinedAt(ret.Vol[N])) = NumReturns - N
        /\ \A t \in DefinedAt(ret.Vol[N]) : ret.Vol[N][t] >= 0

\* C10 amended: for L returns and a window N <= L the rolling mean is
\* defined at exactly L - N + 1 rows, the first at the N-th return (row N + 1
\* of the frame: the window of N returns ends at the row itself); for N >= 2
\* the volatility is defined at the same rows and is >= 0, for N = 1 it is
\* defined nowhere; every other position is NaN, never zero.
C10_DefinedFromReturnN ==
  pc = "return" =>
    \A N \in args.windows :
      /\ Len(ret.Vol[N]) = Len(args.close) /\ Len(ret.RollMean[N]) = Len(args.close)
      /\ N <= NumReturns =>
           /\ DefinedAt(ret.RollMean[N]) = (N + 1)..Len(args.close)
           /\ Cardinality(DefinedAt(ret.RollMean[N])) = NumReturns - N + 1
           /\ DefinedAt(ret.Vol[N]) = IF N >= 2 THEN (N + 1)..Len(args.close) ELSE {}
           /\ \A t \in DefinedAt(ret.Vol[N]) : ret.Vol[N][t] >= 0
           /\ \A t \in 1..N : IsNaN(ret.Vol[N][t]) /\ IsNaN(ret.RollMean[N][t])

C10_Witness ==
  /\ pc = "return" /\ Len(args.close) = 5 /\ 2 \in args.windows
  /\ IsNaN(ret.Vol[2][2]) /\ ~IsNaN(ret.Vol[2][3]) /\ ret.Vol[2][3] > 0
  /\ Cardinality(DefinedAt(ret.Vol[2])) = 3

Max(a, b) == IF a > b THEN a ELSE b

\* C1: the candidates are exactly the rows W .. R-1, in order; candidate i
\* uses the W rows [i-W, i) that strictly precede it; so at most R-W
\* observations are produced, and none when R <= W.
C1_CandidatesAndWindows ==
  /\ i = window + Len(visited)
  /\ \A k \in 1..Len(visited) :
       LET v == visited[k]
       IN /\ v.row = window + k - 1
          /\ v.row < Len(df)
          /\ v.lo = v.row - window /\ v.hi = v.row
          /\ WindowData(df, v.row, window) = SubSeq(df, v.row - window + 1, v.row)
          /\ Len(WindowData(df, v.row, window)) = window
  /\ Len(distances) = Len(dates)
  /\ Len(distances) <= Max(0, Len(df) - window)
  /\ \A k \in 1..Len(dates) : dates[k] \in window..(Len(df) - 1)
  /\ pc = "done" =>
       /\ {visited[k].row : k \in 1..Len(visited)} = window..(Len(df) - 1)
       /\ Len(visited) = Max(0, Len(df) - window)
       /\ (Len(df) <= window => distances = <<>>)

C1_Witness ==
  /\ pc = "done" /\ Len(df) - window >= 2
  /\ Len(visited) = Len(df) - window /\ Len(distances) >= 2

\* The window of rows taken as exact integers: is its sample covariance
\* matrix rank-deficient (determinant of the scatter matrix zero)?
Scatter(win, j, k) ==
  LET W == Len(win)
      x == [r \in 1..W |-> win[r][j] \div One]
      y == [r \in 1..W |-> win[r][k] \div One]
      sum(f) == LET RECURSIVE go(_)
                    go(n) == IF n = 0 THEN 0 ELSE go(n - 1) + f[n]
                IN go(W)
  IN W * sum([r \in 1..W |-> x[r] * y[r]]) - sum(x) * sum(y)

RankDeficient(win) ==
  IF Len(win[1]) = 1 THEN Scatter(win, 1, 1) = 0
  ELSE Scatter(win, 1, 1) * Scatter(win, 2, 2) - Scatter(win, 1, 2) * Scatter(win, 1, 2) = 0

\* C2: a candidate whose window or row holds a missing value, or whose
\* window's covariance matrix is rank-deficient, produces no (date, distance)
\* pair, and the loop goes on to the next row.
C2_SkipMissingOrSingular ==
  \A k \in 1..Len(visited) :
    LET v == visited[k]
        win == WindowData(df, v.row, window)
    IN (AnyNaN(win, CurrentPoint(df, v.row)) \/ RankDeficient(win))
         => /\ v.outcome # "appended"
            /\ \A d \in 1..Len(dates) : dates[d] # v.row

\* C3: every distance emitted is a defined, non-negative number.
C3_DistanceDefinedNonNegative ==
  \A k \in 1..Len(distances) : ~IsNaN(distances[k]) /\ distances[k] >= 0

\* --------------------------------------- mahalanobis_regime.load_vol_ratios
\* A JSON object is a function from its keys to its values.
\* dict.update keeping the entries already present (setdefault).
DictUpdateKeepExisting(merged, data) ==
  [k \in DOMAIN merged \cup DOMAIN data |->
     IF k \in DOMAIN merged THEN merged[k] ELSE data[k]]

\* merged.update(data): every key of data is set, replacing the old entry.
DictUpdate(merged, data) ==
  [k \in DOMAIN merged \cup DOMAIN data |->
     IF k \in DOMAIN data THEN data[k] ELSE merged[k]]

\* One file: a single-ticker file is wrapped under "volatility_<ticker>".
\* The ticker names are such that "volatility_" \o "A" = "volatility_A".
MergeFile(merged, data) ==
  IF "ticker" \in DOMAIN data /\ "timeseries" \in DOMAIN data
  THEN DictUpdate(merged, [k \in {"volatility_" \o data["ticker"]} |-> data])
  ELSE DictUpdate(merged, data)

MergeFilesTo(files, n) ==
  LET RECURSIVE go(_)
      go(k) == IF k = 0 THEN << >> ELSE MergeFile(go(k - 1), files[k])
  IN go(n)

\* load_vol_ratios(input_files); a str argument is one path.
LoadVolRatios(input_files) == MergeFilesTo(input_files, Len(input_files))

\* File contents: vol_ratios-format files over the keys A and volatility_A,
\* and single-ticker files for the tickers A and B.
FileSet ==
  UNION {[K -> {[daily |-> 1], [daily |-> 2]}] : K \in SUBSET {"A", "volatility_A"}}
    \cup {[k \in {"ticker", "timeseries"} |-> IF k = "ticker" THEN t ELSE n] :
            t \in {"A", "B"}, n \in {1, 2}}

InitLoad ==
  /\ MahaIdle
  /\ pc = "call"
  /\ args \in UNION {[1..n -> FileSet] : n \in 0..MaxFiles}
  /\ ret = <<>>

CallLoadVolRatios ==
  /\ pc = "call"
  /\ ret' = LoadVolRatios(args)
  /\ pc' = "return"
  /\ UNCHANGED <<mahaVars, args>>

NextLoad == CallLoadVolRatios
SpecLoad == InitLoad /\ [][NextLoad]_vars

IsSingleTicker(data) == "ticker" \in DOMAIN data /\ "timeseries" \in DOMAIN data
\* The symbol keys a file contributes.
FileKeys(data) ==
  IF IsSingleTicker(data) THEN {"volatility_" \o data["ticker"]} ELSE DOMAIN data
FileEntry(data, k) == IF IsSingleTicker(data) THEN data ELSE data[k]
LastFileWith(files, k) ==
  CHOOSE n \in 1..Len(files) :
    k \in FileKeys(files[n]) /\ \A m \in (n + 1)..Len(files) : k \notin FileKeys(files[m])

\* C13: the merged result has exactly the symbol keys found in any file, and
\* each key holds, whole, the entry of the last file in the given order that
\* has it; a single-ticker file counts under the key volatility_<ticker>.
C13_LastLoadedWins ==
  pc = "return" =>
    /\ DOMAIN ret = UNION {FileKeys(args[n]) : n \in 1..Len(args)}
    /\ \A k \in DOMAIN ret : ret[k] = FileEntry(args[LastFileWith(args, k)], k)

C13_Witness ==
  /\ pc = "return" /\ Len(args) = 3
  /\ ~IsSingleTicker(args[1]) /\ "volatility_A" \in DOMAIN args[1]
  /\ IsSingleTicker(args[2]) /\ args[2]["ticker"] = "A"
  /\ IsSingleTicker(args[3]) /\ args[3]["ticker"] = "B"
  /\ ret["volatility_A"] = args[2] /\ ret["volatility_B"] = args[3]

\* ------------------------------------ mahalanobis_regime.build_timeseries_df
\* Dates are day numbers; `data` maps a date to its {column: value} dict.
ColName(ticker, metric) == ticker \o "_" \o metric

\* values['1M'] / values['1Y'], in hundredths.
Ratio(short, long) == (100 * short) \div long

\* The `values` dict of one record: the requested metrics it has a value for.
RecordValues(record, metrics) ==
  [m \in {metrics[k] : k \in 1..Len(metrics)} \cap DOMAIN record |-> record[m]]

\* The cells one record (or one date of a timeseries) writes: a column for
\* each value, and the ratio column when '1M' and '1Y' are among them and the
\* '1Y' value is not zero.
RowCells(ticker, values) ==
  LET base == [c \in {ColName(ticker, m) : m \in DOMAIN values} |->
                 values[CHOOSE m \in DOMAIN values : ColName(ticker, m) = c]]
  IN IF "1M" \in DOMAIN values /\ "1Y" \in DOMAIN values /\ values["1Y"] # 0
     THEN DictUpdate(base, [c \in {ColName(ticker, "ratio")} |->
                              Ratio(values["1M"], values["1Y"])])
     ELSE base

\* if date not in data: data[date] = {}; then the cells are set.
AddRow(data, date, cells) ==
  [d \in DOMAIN data \cup {date} |->
     IF d = date
     THEN DictUpdate(IF d \in DOMAIN data THEN data[d] ELSE << >>, cells)
     ELSE data[d]]

\* The 'daily' branch: each record with a date, in list order.
ProcessDaily(data, ticker, daily, metrics) ==
  LET RECURSIVE go(_)
      go(n) ==
        IF n = 0 THEN data
        ELSE IF "date" \in DOMAIN daily[n]
             THEN AddRow(go(n - 1), daily[n]["date"],
                         RowCells(ticker, RecordValues(daily[n], metrics)))
             ELSE go(n - 1)
  IN go(Len(daily))

\* {entry['date']: entry['volatility'] for entry in ... if both keys present}
MetricMap(entries) ==
  LET ok == {n \in 1..Len(entries) : {"date", "volatility"} \subseteq DOMAIN entries[n]}
  IN [d \in {entries[n]["date"] : n \in ok} |->
        LET last == CHOOSE n \in ok :
                      /\ entries[n]["date"] = d
                      /\ \A m \in ok : entries[m]["date"] = d => m <= n
        IN entries[last]["volatility"]]

\* The 'timeseries' branch: every date of any requested metric's map.
ProcessTimeseries(data, ticker, timeseries, metrics) ==
  LET requested == {metrics[k] : k \in 1..Len(metrics)} \cap DOMAIN timeseries
      metric_maps == [m \in requested |-> MetricMap(timeseries[m])]
      all_dates == UNION {DOMAIN metric_maps[m] : m \in requested}
      values(d) == [m \in {x \in requested : d \in DOMAIN metric_maps[x]} |->
                      metric_maps[m][d]]
      RECURSIVE go(_)
      go(todo) ==
        IF todo = {} THEN data
        ELSE LET d == CHOOSE x \in todo : TRUE
             IN AddRow(go(todo \ {d}), d, RowCells(ticker, values(d)))
  IN go(all_dates)

\* One (symbol, info) item of vol_ratios.
ProcessSymbol(data, symbol, info, metrics) ==
  LET ticker == IF "ticker" \in DOMAIN info THEN info["ticker"] ELSE symbol
  IN IF "daily" \in DOMAIN info
     THEN ProcessDaily(data, ticker, info["daily"], metrics)
     ELSE IF "timeseries" \in DOMAIN info
     THEN ProcessTimeseries(data, ticker, info["timeseries"], metrics)
     ELSE data

\* The loop leaving at the first symbol of neither shape (break).
BuildDataBreak(items, metrics, n) ==
  LET bad == {k \in 1..n : {"daily", "timeseries"} \cap DOMAIN items[k][2] = {}}
      stop == IF bad = {} THEN n ELSE (CHOOSE k \in bad : \A j \in bad : k <= j) - 1
      RECURSIVE build(_)
      build(k) ==
        IF k = 0 THEN << >>
        ELSE ProcessSymbol(build(k - 1), items[k][1], items[k][2], metrics)
  IN build(stop)

\* for symbol, info in vol_ratios.items(): the first n items.
BuildData(items, metrics, n) ==
  LET RECURSIVE build(_)
      build(k) ==
        IF k = 0 THEN << >>
        ELSE ProcessSymbol(build(k - 1), items[k][1], items[k][2], metrics)
  IN build(n)

\* A cell filled forward from the latest earlier date that has the column.
FrameCellFfill(data, date, col) ==
  LET has == {d \in DOMAIN data : d <= date /\ col \in DOMAIN data[d]}
  IN IF has = {} THEN NaN
     ELSE data[CHOOSE d \in has : \A e \in has : e <= d][col]

\* A cell of the frame: the value set for (date, column), else missing.
FrameCell(data, date, col) ==
  IF col \in DOMAIN data[date] THEN data[date][col] ELSE NaN

\* pd.DataFrame.from_dict(data, orient='index') and sort_index(): a row for
\* each date with at least one value, a column for each key of any row.
FromDict(data) ==
  LET rows == {d \in DOMAIN data : DOMAIN data[d] # {}}
      cols == UNION {DOMAIN data[d] : d \in rows}
  IN [index |-> Sorted(rows), columns |-> cols,
      cell |-> [d \in rows |-> [c \in cols |-> FrameCell(data, d, c)]]]

BuildTimeseriesDf(vol_ratios, metrics) ==
  FromDict(BuildData(vol_ratios, metrics, Len(vol_ratios)))

\* Inputs: the symbol A with any info of either shape (or neither), and
\* optionally a symbol B, before or after it, whose ticker may also be "A".
InfoSet ==
  LET FieldValues(k) ==
        CASE k = "date" -> {1, 2} [] k = "1M" -> {1} [] k = "1Y" -> {0, 2} [] OTHER -> {1}
      DailyRecordSet ==
        UNION {{f \in [K -> 0..2] : \A k \in K : f[k] \in FieldValues(k)} :
                 K \in SUBSET {"date", "1M", "1Y", "3M"}}
      EntrySet(label) ==
        UNION {{f \in [K -> 0..2] :
                  \A k \in K : f[k] \in (IF k = "date" THEN {1, 2} ELSE FieldValues(label))} :
                 K \in SUBSET {"date", "volatility"}}
      TimeseriesSet ==
        {[l \in {x \in {"1M", "1Y", "3M"} :
                   (x = "1M" /\ h[1]) \/ (x = "1Y" /\ h[2]) \/ (x = "3M" /\ h[3])} |->
            CASE l = "1M" -> a [] l = "1Y" -> b
              [] OTHER -> <<[date |-> 1, volatility |-> 1]>>] :
           h \in [1..3 -> BOOLEAN],
           a \in UNION {[1..n -> EntrySet("1M")] : n \in 0..1},
           b \in UNION {[1..n -> EntrySet("1Y")] : n \in 0..MaxRecords}}
  IN {[k \in {"daily"} |-> d] :
        d \in UNION {[1..n -> DailyRecordSet] : n \in 0..MaxRecords}}
       \cup {[k \in {"timeseries"} |-> t] : t \in TimeseriesSet}
       \cup {[k \in {"ticker"} |-> "A"]}

OtherInfoSet ==
  { [k \in {"ticker"} |-> "A"],
    [k \in {"daily"} |-> <<[date |-> 2, 1M |-> 1, 1Y |-> 2]>>],
    [k \in {"ticker", "daily"} |->
       IF k = "ticker" THEN "A" ELSE <<[date |-> 2, 1M |-> 1, 1Y |-> 2]>>] }

InitBuild ==
  /\ MahaIdle
  /\ pc = "call"
  /\ \E info \in InfoSet :
       args \in [vol_ratios : {<< <<"A", info>> >>}
                                \cup {<< <<"A", info>>, <<"B", o>> >> : o \in OtherInfoSet}
                                \cup {<< <<"B", o>>, <<"A", info>> >> : o \in OtherInfoSet},
                 metrics : {<<"1M", "1Y">>, <<"3M", "1Y">>}]
  /\ ret = <<>>

CallBuildTimeseriesDf ==
  /\ pc = "call"
  /\ ret' = BuildTimeseriesDf(args.vol_ratios, args.metrics)
  /\ pc' = "return"
  /\ UNCHANGED <<mahaVars, args>>

NextBuild == CallBuildTimeseriesDf
SpecBuild == InitBuild /\ [][NextBuild]_vars

TickerOf(item) == IF "ticker" \in DOMAIN item[2] THEN item[2]["ticker"] ELSE item[1]
Requested == {args.metrics[k] : k \in 1..Len(args.metrics)}

\* The values the input reports for (ticker, window, date): a daily record
\* with that date and a value for the window, or an entry of the window's
\* timeseries list with that date and a volatility.
Reports(items, ticker, w, d) ==
  UNION {
    LET info == items[n][2]
    IN IF TickerOf(items[n]) # ticker THEN {}
       ELSE IF "daily" \in DOMAIN info
       THEN {info["daily"][r][w] :
               r \in {x \in 1..Len(info["daily"]) :
                        /\ {"date", w} \subseteq DOMAIN info["daily"][x]
                        /\ info["daily"][x]["date"] = d}}
       ELSE IF "timeseries" \in DOMAIN info /\ w \in DOMAIN info["timeseries"]
       THEN {info["timeseries"][w][r]["volatility"] :
               r \in {x \in 1..Len(info["timeseries"][w]) :
                        /\ {"date", "volatility"} \subseteq DOMAIN info["timeseries"][w][x]
                        /\ info["timeseries"][w][x]["date"] = d}}
       ELSE {} : n \in 1..Len(items)}

\* The value of a cell of the returned matrix; missing if it has no such
\* row or column.
CellOf(frame, d, c) ==
  IF d \in DOMAIN frame.cell /\ c \in frame.columns THEN frame.cell[d][c] ELSE NaN

\* C12: the rows are in ascending date order; a cell (ticker_window, date)
\* holds a value only if the input reports one for that ticker, window and
\* date, and then it holds a reported value (the only one, unless the date is
\* reported twice); every other cell is missing; only requested windows and
\* the ratio have columns.
C12_NoFillSortedRows ==
  pc = "return" =>
    /\ \A k \in 1..(Len(ret.index) - 1) : ret.index[k] < ret.index[k + 1]
    /\ {ret.index[k] : k \in 1..Len(ret.index)} = DOMAIN ret.cell
    /\ ret.columns \subseteq
         {ColName(t, w) : t \in {"A", "B"}, w \in Requested \cup {"ratio"}}
    /\ \A t \in {"A", "B"}, w \in Requested, d \in 1..2 :
         LET reported == Reports(args.vol_ratios, t, w, d)
             v == CellOf(ret, d, ColName(t, w))
         IN IF reported = {} THEN IsNaN(v) ELSE v \in reported

C12_Witness ==
  /\ pc = "return" /\ ret.index = <<1, 2>>
  /\ CellOf(ret, 1, "A_1Y") = 2 /\ IsNaN(CellOf(ret, 2, "A_1Y"))
  /\ CellOf(ret, 2, "A_1M") = 1

\* No date is reported twice for a window, and there is one symbol.
OneSymbolUniqueDates ==
  /\ Len(args.vol_ratios) = 1
  /\ \A w \in Requested, d \in 1..2 :
       LET info == args.vol_ratios[1][2]
       IN IF "daily" \in DOMAIN info
          THEN Cardinality({r \in 1..Len(info["daily"]) :
                 "date" \in DOMAIN info["daily"][r] /\ info["daily"][r]["date"] = d}) <= 1
          ELSE IF "timeseries" \in DOMAIN info /\ w \in DOMAIN info["timeseries"]
          THEN Cardinality({r \in 1..Len(info["timeseries"][w]) :
                 /\ {"date", "volatility"} \subseteq DOMAIN info["timeseries"][w][r]
                 /\ info["timeseries"][w][r]["date"] = d}) <= 1
          ELSE TRUE

\* C11 (for one symbol that reports no date twice): with short and long the
\* two requested labels, the ratio cell of a date holds short / long exactly
\* when both labels have a value on that date and the long one is not zero,
\* and is missing on every other date.
C11_RatioOfRequestedWindows ==
  (pc = "return" /\ OneSymbolUniqueDates) =>
    \A d \in 1..2 :
      LET short == CellOf(ret, d, ColName("A", args.metrics[1]))
          long == CellOf(ret, d, ColName("A", args.metrics[2]))
          ratio == CellOf(ret, d, ColName("A", "ratio"))
      IN IF ~IsNaN(short) /\ ~IsNaN(long) /\ long # 0
         THEN ratio = Ratio(short, long)
         ELSE IsNaN(ratio)

\* The input without its malformed records: daily records lacking a date or
\* a value for a requested window, timeseries entries lacking 'date' or
\* 'volatility'.
SelectSeq2(seq, Keep(_)) ==
  LET RECURSIVE go(_)
      go(n) == IF n = 0 THEN << >>
               ELSE IF Keep(seq[n]) THEN Append(go(n - 1), seq[n]) ELSE go(n - 1)
  IN go(Len(seq))

WellFormedOnly(items, metrics) ==
  [n \in 1..Len(items) |->
     LET info == items[n][2]
         DailyOk(r) == "date" \in DOMAIN r
                         /\ \A k \in 1..Len(metrics) : metrics[k] \in DOMAIN r
         EntryOk(e) == {"date", "volatility"} \subseteq DOMAIN e
     IN <<items[n][1],
          [k \in DOMAIN info |->
             IF k = "daily" THEN SelectSeq2(info[k], DailyOk)
             ELSE IF k = "timeseries"
             THEN [w \in DOMAIN info[k] |-> SelectSeq2(info[k][w], EntryOk)]
             ELSE info[k]]>>]

\* C14: the matrix built from an input equals the matrix built from the
\* same input with its malformed records removed.
C14_MalformedRecordsDropped ==
  pc = "return" =>
    ret = BuildTimeseriesDf(WellFormedOnly(args.vol_ratios, args.metrics), args.metrics)

HasShape(item) == {"daily", "timeseries"} \cap DOMAIN item[2] # {}

\* C15: a symbol with neither a 'daily' nor a 'timeseries' key contributes
\* nothing: the matrix equals the one built from the other symbols alone.
C15_ShapelessSymbolSkipped ==
  pc = "return" =>
    ret = BuildTimeseriesDf(SelectSeq2(args.vol_ratios, HasShape), args.metrics)

C15_Witness ==
  /\ pc = "return" /\ Len(args.vol_ratios) = 2
  /\ ~HasShape(args.vol_ratios[1]) /\ HasShape(args.vol_ratios[2])
  /\ Len(ret.index) = 2 /\ "A_ratio" \in ret.columns

\* C19: the first date has no return and every later date has one, so the
\* returns are one fewer than the prices; method 'log' gives ln(cur / prev)
\* (0 for equal prices, +-0.693 for a doubling or halving); the
\* difference-scaled method gives 100 * (cur - prev) on yield input and
\* 10000 * (cur - prev) / prev on price input.
C19_ReturnByMethodAndUnit ==
  pc = "return" =>
    LET r == ret.Returns
        c == args.close
    IN /\ Len(r) = Len(c)
       /\ Len(c) >= 1 =>
            IsNaN(r[1]) /\ Cardinality(DefinedAt(r)) = Len(c) - 1
       /\ \A t \in 2..Len(c) :
            /\ ~IsNaN(r[t])
            /\ args.method = "log" =>
                 /\ c[t] = c[t - 1] => r[t] = 0
                 /\ c[t] = 2 * c[t - 1] => r[t] = 693
                 /\ 2 * c[t] = c[t - 1] => r[t] = -693
            /\ (args.method = "bps" /\ args.is_fred) =>
                 r[t] = 100 * c[t] - 100 * c[t - 1]
            /\ (args.method = "bps" /\ ~args.is_fred) =>
                 r[t] * c[t - 1] = 10000 * (c[t] - c[t - 1])

C19_Witness ==
  /\ pc = "return" /\ args.method = "bps" /\ ~args.is_fred
  /\ Len(args.close) = 3 /\ args.close[1] = 2 /\ args.close[2] = 1
  /\ IsNaN(ret.Returns[1]) /\ ret.Returns[2] = -5000 /\ ret.Returns[3] >= 0

\* C20: with fewer than two prices nothing is defined: the frame's returns
\* and every window's rolling mean and volatility are NaN, and the
\* whole-series volatility of vol_sp500components is NaN; none is zero.
C20_InsufficientDataUndefined ==
  (pc = "return" /\ Len(args.close) < 2) =>
    /\ \A t \in 1..Len(args.close) :
         /\ IsNaN(ret.Returns[t])
         /\ \A N \in args.windows : IsNaN(ret.RollMean[N][t]) /\ IsNaN(ret.Vol[N][t])
    /\ IsNaN(ret.sp) /\ ret.sp # 0

C20_Witness ==
  /\ pc = "return" /\ Len(args.close) = 1 /\ args.windows = {1, 2}
  /\ ret.Returns = <<NaN>> /\ ret.Vol[1] = <<NaN>> /\ IsNaN(ret.sp)

\* ---------------------------------------- mahalanobis_regime.export_results
\* A zero-padded decimal numeral of `width` digits (more if n needs them).
Numeral(n, width) ==
  LET Digit(k) == <<"0", "1", "2", "3", "4", "5", "6", "7", "8", "9">>[k + 1]
      RECURSIVE go(_, _)
      go(m, w) == IF m < 10 /\ w <= 1 THEN Digit(m)
                  ELSE go(m \div 10, w - 1) \o Digit(m % 10)
  IN go(n, width)

\* date.strftime('%Y-%m'): the day left out.
StrftimeYearMonth(date) == Numeral(date.year, 4) \o "-" \o Numeral(date.month, 2)

\* date.strftime('%Y-%m-%d')
Strftime(date) ==
  Numeral(date.year, 4) \o "-" \o Numeral(date.month, 2) \o "-" \o Numeral(date.day, 2)

\* json.dump of float(x): the decimal numeral of x = v / den, exact with
\* `digits` decimals (den divides 10^digits); NaN is written as NaN.
JsonFloat(v, den, digits) ==
  IF IsNaN(v) THEN "NaN"
  ELSE (IF v < 0 THEN "-" ELSE "") \o Numeral(Abs(v) \div den, 1) \o "."
         \o Numeral((Abs(v) % den) * ((10 ^ digits) \div den), digits)

\* export_results: the 'regimes' and 'continuous_stress' objects of the JSON
\* artifact, filled row by row; a later row with the same key replaces the
\* earlier one.
ExportResults(regime_df, stress_scores) ==
  LET RECURSIVE go(_)
      go(n) ==
        IF n = 0 THEN [regimes |-> << >>, continuous_stress |-> << >>]
        ELSE LET prev == go(n - 1)
                 row == regime_df[n]
                 date_str == Strftime(row.date)
                 has == {k \in 1..Len(stress_scores) : stress_scores[k].date = row.date}
             IN [regimes |->
                   DictUpdate(prev.regimes,
                     [k \in {date_str} |->
                        [distance |-> JsonFloat(row.distance, One, FracBits),
                         percentile |-> JsonFloat(row.percentile, One, FracBits),
                         regime |-> row.regime]]),
                 continuous_stress |->
                   IF has = {} THEN prev.continuous_stress
                   ELSE DictUpdate(prev.continuous_stress,
                          [k \in {date_str} |->
                             JsonFloat(stress_scores[CHOOSE j \in has : TRUE].value,
                                       ScoreOne, 5)])]
  IN go(Len(regime_df))

\* Observation dates; distances and percentiles are in units of 2^-FracBits
\* and stress scores in units of 1 / ScoreOne.
DateSet ==
  {[year |-> 2023, month |-> 12, day |-> 31], [year |-> 2024, month |-> 1, day |-> 1],
   [year |-> 2024, month |-> 1, day |-> 11], [year |-> 2024, month |-> 11, day |-> 1]}

InitExport ==
  /\ MahaIdle
  /\ pc = "call"
  /\ \E n \in 0..MaxObs :
       \E ds \in [1..n -> DateSet] :
         /\ \A j, k \in 1..n : j < k => ds[j] # ds[k]
         /\ \E rows \in [1..n -> [distance : {One + One \div 2, NaN},
                                  percentile : {50 * One, 100 * One},
                                  regime : {"Normal", "Extreme"},
                                  stress : {68269, NaN}]] :
              args = [regime_df |-> [k \in 1..n |->
                                       [date |-> ds[k], distance |-> rows[k].distance,
                                        percentile |-> rows[k].percentile,
                                        regime |-> rows[k].regime]],
                      stress_scores |-> [k \in 1..n |->
                                           [date |-> ds[k], value |-> rows[k].stress]]]
  /\ ret = <<>>

CallExportResults ==
  /\ pc = "call"
  /\ ret' = ExportResults(args.regime_df, args.stress_scores)
  /\ pc' = "return"
  /\ UNCHANGED <<mahaVars, args>>

NextExport == CallExportResults
SpecExport == InitExport /\ [][NextExport]_vars

\* Re-parsing: the date or number a key or numeral stands for, among these
\* floats and scores.
ExportFloats == {One \div 2, One + One \div 2, 50 * One, 100 * One, NaN}
ExportScores == {0, 68269, ScoreOne, NaN}
ParseDates(key) == {d \in DateSet : Strftime(d) = key}
ParseFloats(str, den, digits, values) == {v \in values : JsonFloat(v, den, digits) = str}

\* C18: the artifact has one 'regimes' key per observation, the date as
\* YYYY-MM-DD, and one 'continuous_stress' key per observation; each key
\* re-parses to exactly one date, and the entry under an observation's key
\* re-parses to exactly that observation's distance, percentile, regime label
\* and stress score.
C18_ExportRoundTrip ==
  pc = "return" =>
    /\ Cardinality(DOMAIN ret.regimes) = Len(args.regime_df)
    /\ DOMAIN ret.continuous_stress = DOMAIN ret.regimes
    /\ \A key \in DOMAIN ret.regimes :
         \E k \in 1..Len(args.regime_df) : ParseDates(key) = {args.regime_df[k].date}
    /\ \A k \in 1..Len(args.regime_df) :
         LET row == args.regime_df[k]
             key == Strftime(row.date)
         IN /\ key \in DOMAIN ret.regimes
            /\ ParseFloats(ret.regimes[key].distance, One, FracBits, ExportFloats)
                 = {row.distance}
            /\ ParseFloats(ret.regimes[key].percentile, One, FracBits, ExportFloats)
                 = {row.percentile}
            /\ ret.regimes[key].regime = row.regime
            /\ ParseFloats(ret.continuous_stress[key], ScoreOne, 5, ExportScores)
                 = {args.stress_scores[k].value}

C18_Witness ==
  /\ pc = "return" /\ Len(args.regime_df) = 2
  /\ DOMAIN ret.regimes = {"2024-01-11", "2024-11-01"}
  /\ ret.regimes["2024-01-11"].distance = "1.5000"
  /\ ret.continuous_stress["2024-11-01"] = "0.68269"

\* --------------------------------------------- mahalanobis_regime.main
\* calculate_mahalanobis_distance as a function of (df, window): the (row,
\* distance) pairs the loop of lines 152-176 appends, in order.
CalculateMahalanobisDistance(frame, w) ==
  LET RECURSIVE go(_)
      go(n) ==
        IF ~InRange(n, frame) THEN << >>
        ELSE LET win == WindowData(frame, n, w)
                 cur == CurrentPoint(frame, n)
             IN IF AnyNaN(win, cur) THEN go(n + 1)
                ELSE LET inv == LinalgInv(NpCov(win))
                     IN IF ~inv.ok THEN go(n + 1)
                        ELSE <<[date |-> n, distance |-> Distance(win, cur, inv.m)]>>
                               \o go(n + 1)
  IN go(RangeStart(w))

\* vol_ratios.items()
DictItems(dict) ==
  LET RECURSIVE go(_)
      go(todo) == IF todo = {} THEN << >>
                  ELSE LET k == CHOOSE x \in todo : TRUE
                       IN <<<<k, dict[k]>>>> \o go(todo \ {k})
  IN go(DOMAIN dict)

\* df.dropna(): the dates of the rows without a missing cell, and their
\* values as floats, column by column.
DropNa(frame) ==
  LET keep == {d \in DOMAIN frame.cell : \A c \in frame.columns : ~IsNaN(frame.cell[d][c])}
      cols == SelectSeq(<<"A_1M", "A_1Y", "A_ratio">>, LAMBDA c : c \in frame.columns)
      index == Sorted(keep)
  IN [index |-> index,
      values |-> [k \in 1..Len(index) |->
                    [c \in 1..Len(cols) |-> FromInt(frame.cell[index[k]][cols[c]])]]]

\* The whole-number distance at which the chi-squared table is read.
DistanceBucket(d) ==
  IF IsNaN(d) THEN NaN
  ELSE IF d = PosInf \/ d > 6 * One THEN 6
  ELSE (d + One \div 2) \div One

\* pd.Series([], index=[]) is float64 before pandas 2.0 and object from 2.0
\* on; a series with values is float64.
EmptySeriesDtypes == {"float64", "object"}

\* The date of a row of the aligned matrix (pd.to_datetime of its label).
ToDatetime(day) == [year |-> 2024, month |-> 1, day |-> day]

\* regime_df = assign_percentile_buckets(distances), indexed by date, its
\* percentile as a float.
RegimeFrame(pairs, index) ==
  LET buckets == AssignPercentileBuckets([k \in 1..Len(pairs) |-> pairs[k].distance], << >>)
  IN [k \in 1..Len(pairs) |->
        [date |-> ToDatetime(index[pairs[k].date + 1]),
         distance |-> pairs[k].distance,
         percentile |-> IF buckets[k].percentile.d = 0 THEN NaN
                        ELSE Round(buckets[k].percentile.n * One, buckets[k].percentile.d),
         regime |-> buckets[k].regime]]

\* stress_scores = calculate_chi2_pvalue(distances, dof), indexed by date.
StressSeries(pairs, index, dof) ==
  [k \in 1..Len(pairs) |->
     [date |-> ToDatetime(index[pairs[k].date + 1]),
      value |-> StressScore(DistanceBucket(pairs[k].distance), dof)]]

\* How main() ends: `raised` names the exception that ended the run,
\* `artifact` is what export_results wrote.  The date range printed at line
\* 395 needs a first row; chi2.cdf does not take an object-typed series.
MainOutcome(frame, pairs, regime_df, stress_scores, dtype) ==
  LET none == [regimes |-> << >>, continuous_stress |-> << >>]
  IN IF Len(frame.index) = 0
     THEN [raised |-> "IndexError", rows |-> 0, distances |-> << >>,
           regime_df |-> << >>, stress_scores |-> << >>, written |-> FALSE,
           artifact |-> none]
     ELSE IF dtype = "object"
     THEN [raised |-> "TypeError", rows |-> Len(frame.index), distances |-> pairs,
           regime_df |-> regime_df, stress_scores |-> << >>, written |-> FALSE,
           artifact |-> none]
     ELSE [raised |-> "none", rows |-> Len(frame.index), distances |-> pairs,
           regime_df |-> regime_df, stress_scores |-> stress_scores, written |-> TRUE,
           artifact |-> ExportResults(regime_df, stress_scores)]

\* One input file in vol_ratios format: symbol A with up to MaxMainRows daily
\* records on consecutive dates, each with or without a '1M' value (1.0 or
\* 3.0) and with or without a '1Y' value of 0; --window 1 or 2.
InitMain ==
  /\ MahaIdle
  /\ pc = "call"
  /\ \E n \in 0..MaxMainRows :
       \E m \in [1..n -> {0, 1, 3}], y \in [1..n -> BOOLEAN], w \in 1..2 :
         args = [input |-> <<[s \in {"A"} |->
                   [k \in {"daily"} |->
                      [r \in 1..n |->
                         [f \in {"date"} \cup (IF m[r] # 0 THEN {"1M"} ELSE {})
                                  \cup (IF y[r] THEN {"1Y"} ELSE {}) |->
                            IF f = "date" THEN r ELSE IF f = "1M" THEN m[r] ELSE 0]]]]>>,
                 window |-> w]
  /\ ret = <<>>

\* main(): load, align, drop incomplete rows, distances, regimes, stress
\* scores, summary, export.
CallMain ==
  /\ pc = "call"
  /\ \E frame \in {BuildTimeseriesDf(DictItems(LoadVolRatios(args.input)), <<"1M", "1Y">>)} :
       \E df_clean \in {DropNa(frame)} :
         \E pairs \in {CalculateMahalanobisDistance(df_clean.values, args.window)} :
           \E regime_df \in {RegimeFrame(pairs, df_clean.index)},
              stress_scores \in {StressSeries(pairs, df_clean.index,
                                              Cardinality(frame.columns))},
              dtype \in EmptySeriesDtypes :
             /\ pairs # << >> => dtype = "float64"
             /\ ret' = MainOutcome(frame, pairs, regime_df, stress_scores, dtype)
  /\ pc' = "return"
  /\ UNCHANGED <<mahaVars, args>>

NextMain == CallMain
SpecMain == InitMain /\ [][NextMain]_vars

\* C16: when the distance series is empty (at most W complete rows, or every
\* candidate skipped), the run gets through assign_percentile_buckets and
\* calculate_chi2_pvalue without an exception, with empty results.
C16_EmptySeriesNoException ==
  (pc = "return" /\ ret.rows > 0 /\ ret.distances = << >>) =>
    ret.raised = "none" /\ ret.regime_df = << >> /\ ret.stress_scores = << >>

\* C17: a run with no usable input (empty matrix) or no eligible date ends
\* without an exception, and what it writes cannot be taken for a run in
\* which dates were evaluated.
C17_NoEligibleDataOutcome ==
  (pc = "return" /\ ret.distances = << >>) =>
    /\ ret.raised = "none"
    /\ ret.written => DOMAIN ret.artifact.regimes = {}

\* The rows i-W .. i of the matrix, on their own.
SliceOf(frame, n, w) == SubSeq(frame, n - w + 1, n + 1)
\* What the loop did with row n: <<distance>> if it appended one, << >> if
\* it skipped the row.
LoopOutcome(n) ==
  IF \E k \in 1..Len(dates) : dates[k] = n
  THEN <<distances[CHOOSE k \in 1..Len(dates) : dates[k] = n]>>
  ELSE << >>
\* What the function does with the last row of a matrix of W + 1 rows.
AloneOutcome(slice, w) ==
  LET pairs == CalculateMahalanobisDistance(slice, w)
  IN [k \in 1..Len(pairs) |-> pairs[k].distance]

\* C21: the outcome for row i (its distance, or skipped) is the outcome the
\* function gives for rows i-W .. i taken alone, so two matrices that agree on
\* those rows give the same outcome for row i, whatever their other rows hold
\* and whatever happened to the other candidates.
C21_OutcomeDependsOnWindowRowsOnly ==
  \A k \in 1..Len(visited) :
    LET v == visited[k]
    IN /\ (v.outcome = "appended") <=> (\E d \in 1..Len(dates) : dates[d] = v.row)
       /\ LoopOutcome(v.row) = AloneOutcome(SliceOf(df, v.row, window), window)

C21_Witness ==
  /\ pc = "done" /\ Len(df) = 4 /\ window = 2
  /\ visited[1].outcome = "singular" /\ visited[2].outcome = "appended"
  /\ distances = LoopOutcome(3) /\ ~IsNaN(distances[1]) /\ distances[1] > 0
  /\ df[1] # df[4]

IsDefaultMapping(b) == Items(Buckets(b)) = Items(DefaultBuckets)

\* C22: under the default mapping every percentile of a non-empty series is
\* greater than 0 and at most 100, so every observation is matched by a
\* threshold inside the loop and the return after the loop is never reached.
C22_FallbackNeverTaken ==
  (pc = "return" /\ IsDefaultMapping(args.buckets)) =>
    \A k \in 1..Len(ret) :
      /\ PctAbove(ret[k].percentile, 0) /\ PctLeq(ret[k].percentile, 100)
      /\ Fitting(ret[k].percentile, Buckets(args.buckets)) # {}

\* C22 for the defined distances alone: each is matched inside the loop; an
\* undefined distance has an undefined percentile, which no threshold matches.
C22_DefinedDistances ==
  (pc = "return" /\ IsDefaultMapping(args.buckets)) =>
    \A k \in 1..Len(ret) :
      IF IsNaN(args.distances[k])
      THEN Fitting(ret[k].percentile, Buckets(args.buckets)) = {} /\ ret[k].regime = "Extreme"
      ELSE /\ PctAbove(ret[k].percentile, 0) /\ PctLeq(ret[k].percentile, 100)
           /\ Fitting(ret[k].percentile, Buckets(args.buckets)) # {}

\* The k-th smallest value of a series (k = 1 .. length).
OrderStat(series, k) ==
  CHOOSE v \in {series[j] : j \in 1..Len(series)} :
    /\ Cardinality({j \in 1..Len(series) : series[j] < v}) < k
    /\ Cardinality({j \in 1..Len(series) : series[j] <= v}) >= k

\* C23: for a non-empty series of defined values the breakpoints are ordered
\* q1 <= q2 <= q3; the one at p = num/4 stands at position (n - 1) * p among
\* the order statistics, interpolated linearly between the two neighbours of
\* that position; a single value or a constant series gives three equal
\* breakpoints.
C23_BreakpointsOrdered ==
  pc = "return" =>
    LET series == args.series
        n == Len(series)
        q == ret.q
    IN /\ q[1] <= q[2] /\ q[2] <= q[3]
       /\ \A num \in 1..3 :
            LET lo == ((n - 1) * num) \div 4
                fr == ((n - 1) * num) % 4
                hi == IF fr = 0 THEN lo ELSE lo + 1
            IN /\ OrderStat(series, lo + 1) <= q[num] /\ q[num] <= OrderStat(series, hi + 1)
               /\ 4 * q[num] = (4 - fr) * OrderStat(series, lo + 1)
                                 + fr * OrderStat(series, hi + 1)
       /\ (\A j \in 1..n : series[j] = series[1]) =>
            q = <<series[1], series[1], series[1]>>

C23_Witness ==
  /\ pc = "return" /\ Len(args.series) = 4
  /\ args.series[1] > args.series[2]
  /\ ret.q[1] < ret.q[2] /\ ret.q[2] = ret.q[3]
  /\ \A j \in 1..4 : args.series[j] # ret.q[1]

\* ------------------------- vol_sp500components.process_ticker and
\* ------------------------- volatility_analysis.export_volatility_json
\* A volatility series is a sequence of [date, value] pairs; breakpoints are
\* kept in quarter units (4 * value), where the interpolation is exact.
\* vol_data = column.dropna(), with its dates.
DropNaSeries(index, column) ==
  LET keep == SelectSeq([t \in 1..Len(column) |-> t], LAMBDA t : ~IsNaN(column[t]))
  IN SubSeq([k \in 1..Len(keep) |-> [date |-> index[keep[k]], value |-> column[keep[k]]]],
            1, Len(keep))

QuarterUnits(series) == SubSeq([k \in 1..Len(series) |-> 4 * series[k].value], 1, Len(series))

\* calculate_quartiles(series) if len(series) > 0 else (None, None, None);
\* << >> stands for the three None.
QuartilesOrNone(series) ==
  IF Len(series) > 0 THEN CalculateQuartiles(QuarterUnits(series)) ELSE << >>

\* The statistics block of one period: 'current', 'current_quartile' and the
\* breakpoints q (the other statistics are not modelled).
PeriodStatistics(current, q) ==
  [current |-> current,
   current_quartile |-> AssignQuartileSP(IF IsNaN(current) THEN NaN ELSE 4 * current,
                                         q[1], q[2], q[3]),
   q |-> q]

\* The timeseries with each entry classified against the breakpoints of the
\* series up to that entry.
PeriodTimeseriesExpanding(series, q) ==
  [k \in 1..Len(series) |->
     LET qk == CalculateQuartiles(QuarterUnits(SubSeq(series, 1, k)))
     IN [date |-> series[k].date, volatility |-> series[k].value,
         quartile |-> AssignQuartileSP(4 * series[k].value, qk[1], qk[2], qk[3])]]

\* The timeseries of one period: an entry for each item of the series.
PeriodTimeseries(series, q) ==
  [k \in 1..Len(series) |->
     [date |-> series[k].date, volatility |-> series[k].value,
      quartile |-> AssignQuartileSP(4 * series[k].value, q[1], q[2], q[3])]]

\* export_volatility_json: for each period whose column exists and has a
\* defined value, the block of its last defined value and its timeseries.
\* vol_data[p] and q[p] are the dropna()'d column and its breakpoints.
ExportPeriods == <<"1M", "3M", "6M", "1Y">>
ExportVolatilityJson(ticker_data, vol_data, q) ==
  LET present == {p \in {ExportPeriods[k] : k \in 1..Len(ExportPeriods)} :
                    p \in DOMAIN ticker_data.columns /\ Len(vol_data[p]) # 0}
  IN [volatility_by_period |->
        [p \in present |-> PeriodStatistics(vol_data[p][Len(vol_data[p])].value, q[p])],
      timeseries |-> [p \in present |-> PeriodTimeseries(vol_data[p], q[p])]]

\* parse_date: a string is cut at its first blank, if it has one, and parsed;
\* what does not parse, or is not a string, gives None (0 here).  A string of
\* blanks only has no first word: split()[0] raises IndexError.
ParseDate(date) ==
  CASE date.kind = "ymd" -> [raised |-> FALSE, value |-> date.day]
    [] date.kind = "ymd_hms" -> [raised |-> FALSE, value |-> date.day]
    [] date.kind = "blank" -> [raised |-> TRUE, value |-> 0]
    [] OTHER -> [raised |-> FALSE, value |-> 0]

\* pd.to_numeric(errors='coerce'): a number is kept, anything else is NaN.
ToNumeric(close) == IF close.kind = "num" THEN close.v ELSE NaN

\* The least number of records (lines 154, 164, 170).
MinRecords == 63

\* Lines 161-170: the rows with a parsed date and a numeric close; `short`
\* tells that one of the two length tests returned None.
CleanRows(price_data) ==
  LET dated == SelectSeq(price_data, LAMBDA rec : ParseDate(rec.Date).value # 0)
      numeric == SelectSeq(dated, LAMBDA rec : ~IsNaN(ToNumeric(rec.Close)))
  IN [short |-> Len(dated) < MinRecords \/ Len(numeric) < MinRecords,
      rows |-> SubSeq([k \in 1..Len(numeric) |->
                         [Date |-> ParseDate(numeric[k].Date).value,
                          Close |-> ToNumeric(numeric[k].Close)]], 1, Len(numeric))]

\* df.sort_values('Date'): the rows in ascending order of (distinct) dates.
SortValues(rows) ==
  SubSeq([k \in 1..Len(rows) |->
            rows[CHOOSE r \in 1..Len(rows) :
                   Cardinality({x \in 1..Len(rows) : rows[x].Date <= rows[r].Date}) = k]],
         1, Len(rows))

\* np.log(Close / Close.shift(1)): undefined on the first row and whenever the
\* quotient is not positive.
LogReturns(close) ==
  SubSeq([t \in 1..Len(close) |->
            IF t = 1 THEN NaN
            ELSE IF close[t] * close[t - 1] <= 0 THEN NaN
            ELSE LnRatio(Abs(close[t]), Abs(close[t - 1]))], 1, Len(close))

\* calculate_rolling_volatility with windows={'1M': 21, '3M': 63}:
\* Vol_<period> = rolling(N).std() * sqrt(252) of the returns.
VolColumn(returns, N) ==
  SubSeq([t \in 1..Len(returns) |-> RollVol(returns, t, N)], 1, Len(returns))
CalculateRollingVolatility(returns) ==
  [1M |-> VolColumn(returns, 21), 3M |-> VolColumn(returns, 63)]

\* The result dict of process_ticker: a period is added when its latest
\* value is defined and its breakpoints exist.  `frame` is the local df as
\* calculate_rolling_volatility left it.
TickerResult(index, vol, series, q) ==
  LET present == {p \in DOMAIN vol : ~IsNaN(vol[p][Len(vol[p])]) /\ q[p] # << >>}
  IN [raised |-> "none", none |-> FALSE, num_data_points |-> Len(index),
      frame |-> [index |-> index, columns |-> vol],
      volatility_by_period |->
        [p \in present |-> PeriodStatistics(vol[p][Len(vol[p])], q[p])],
      timeseries |-> [p \in present |-> PeriodTimeseries(series[p], q[p])]]

\* process_ticker returning None, or ended by an exception.
TickerNone(raised) ==
  [raised |-> raised, none |-> raised = "none", num_data_points |-> 0,
   frame |-> [index |-> << >>, columns |-> << >>],
   volatility_by_period |-> << >>, timeseries |-> << >>]

\* Inputs of process_ticker: up to MaxPriceLen records on consecutive days
\* with closes 1 and 2 in one of three patterns, in ascending or descending
\* order of date, one of them possibly with an unparseable, missing, blank or
\* time-stamped date, a non-numeric close or a negative close.
PriceAt(pattern, t) ==
  CASE pattern = "flat" -> 1
    [] pattern = "alternating" -> 1 + (t % 2)
    [] OTHER -> IF t > 30 /\ t % 2 = 0 THEN 2 ELSE 1
SpecialKinds == {"text", "null", "blank", "ymd_hms", "non_numeric", "negative"}
PriceRecord(pattern, t, special) ==
  [Date |-> [kind |-> IF special \in {"text", "null", "blank", "ymd_hms"}
                      THEN special ELSE "ymd",
             day |-> t],
   Close |-> IF special = "non_numeric" THEN [kind |-> "text", v |-> 0]
             ELSE IF special = "negative" THEN [kind |-> "num", v |-> -1]
             ELSE [kind |-> "num", v |-> PriceAt(pattern, t)]]
PriceDataSet ==
  {[k \in 1..n |->
      LET t == IF descending THEN n + 1 - k ELSE k
      IN PriceRecord(pattern, t, IF t = pos THEN special ELSE "plain")] :
     n \in 0..MaxPriceLen, pattern \in {"flat", "alternating", "late"},
     descending \in BOOLEAN, pos \in {0, 1, MaxPriceLen - 11, MaxPriceLen - 3},
     special \in SpecialKinds}

\* Inputs of export_volatility_json: a frame of up to MaxVolRows rows with
\* the columns Vol_1M and Vol_3M, either, or none, whose cells are 0, 1, 2 or
\* missing.
TickerDataSet ==
  UNION {[index : {[t \in 1..n |-> t]},
          columns : UNION {[P -> [1..n -> (0..2) \cup {NaN}]] : P \in SUBSET {"1M", "3M"}}] :
           n \in 0..MaxVolRows}

InitTicker ==
  /\ MahaIdle
  /\ \/ pc = "call_process" /\ args \in [price_data : PriceDataSet]
     \/ pc = "call_export" /\ args \in [ticker_data : TickerDataSet]
  /\ ret = <<>>

\* process_ticker(ticker, price_data, gics_map)
CallProcessTicker ==
  /\ pc = "call_process"
  /\ IF Len(args.price_data) < MinRecords
     THEN ret' = TickerNone("none")
     ELSE IF \E k \in 1..Len(args.price_data) : ParseDate(args.price_data[k].Date).raised
     THEN ret' = TickerNone("IndexError")
     ELSE \E clean \in {CleanRows(args.price_data)} :
            IF clean.short
            THEN ret' = TickerNone("none")
            ELSE \E rows \in {SortValues(clean.rows)} :
                   \E index \in {SubSeq([t \in 1..Len(rows) |-> rows[t].Date], 1, Len(rows))},
                      returns \in {LogReturns([t \in 1..Len(rows) |-> rows[t].Close])} :
                     \E vol \in {CalculateRollingVolatility(returns)} :
                       \E series \in {[1M |-> DropNaSeries(index, vol["1M"]),
                                       3M |-> DropNaSeries(index, vol["3M"])]} :
                         \E q \in {[1M |-> QuartilesOrNone(series["1M"]),
                                    3M |-> QuartilesOrNone(series["3M"])]} :
                           ret' = TickerResult(index, vol, series, q)
  /\ pc' = "return"
  /\ UNCHANGED <<mahaVars, args>>

\* export_volatility_json(ticker_data, ticker_name, output_dir, method)
CallExportVolatilityJson ==
  /\ pc = "call_export"
  /\ \E vol_data \in {[p \in DOMAIN args.ticker_data.columns |->
                         DropNaSeries(args.ticker_data.index, args.ticker_data.columns[p])]} :
       \E q \in {[p \in DOMAIN vol_data |-> QuartilesOrNone(vol_data[p])]} :
         ret' = ExportVolatilityJson(args.ticker_data, vol_data, q)
  /\ pc' = "return"
  /\ UNCHANGED <<mahaVars, args>>

NextTicker == CallProcessTicker \/ CallExportVolatilityJson
SpecTicker == InitTicker /\ [][NextTicker]_vars

\* The frame whose Vol columns an export is made from: the argument of
\* export_volatility_json, the local df of process_ticker.
ExportedFrame == IF "ticker_data" \in DOMAIN args THEN args.ticker_data ELSE ret.frame
DefinedRows(column) == {t \in 1..Len(column) : ~IsNaN(column[t])}
LastDefined(column) == column[CHOOSE t \in DefinedRows(column) : \A u \in DefinedRows(column) : u <= t]

\* C24: in an export, for each window present: 'current' is the most recent
\* defined value of the window's column; 'current_quartile' is the quartile
\* of the last timeseries entry; the timeseries holds, in date order, one
\* entry for each defined observation and none for an undefined one; and
\* every entry's quartile is its value classified against the one set of
\* breakpoints computed from all the defined values, which the block reports.
C24_ExportConsistent ==
  (pc = "return" /\ ret.volatility_by_period # << >>) =>
    /\ DOMAIN ret.timeseries = DOMAIN ret.volatility_by_period
    /\ \A p \in DOMAIN ret.volatility_by_period :
         LET column == ExportedFrame.columns[p]
             index == ExportedFrame.index
             block == ret.volatility_by_period[p]
             ts == ret.timeseries[p]
             rows == SelectSeq([t \in 1..Len(column) |-> t], LAMBDA t : ~IsNaN(column[t]))
             breakpoints == CalculateQuartiles([k \in 1..Len(rows) |-> 4 * column[rows[k]]])
         IN /\ DefinedRows(column) # {}
            /\ block.current = LastDefined(column)
            /\ Len(ts) = Cardinality(DefinedRows(column))
            /\ block.current_quartile = ts[Len(ts)].quartile
            /\ block.q = breakpoints
            /\ \A k \in 1..Len(ts) :
                 /\ ts[k].date = index[rows[k]]
                 /\ ts[k].volatility = column[rows[k]] /\ ~IsNaN(ts[k].volatility)
                 /\ ts[k].quartile
                      = AssignQuartileVA(4 * ts[k].volatility,
                                         breakpoints[1], breakpoints[2], breakpoints[3])

C24_Witness ==
  /\ pc = "return" /\ "price_data" \in DOMAIN args
  /\ DOMAIN ret.volatility_by_period = {"1M", "3M"}
  /\ Len(ret.timeseries["1M"]) > Len(ret.timeseries["3M"])
  /\ Len(ret.timeseries["3M"]) >= 2
  /\ ret.timeseries["1M"][1].quartile = "Q1 (Low)"
  /\ ret.volatility_by_period["1M"].current_quartile = "Q3 (Medium-High)"
  /\ ret.volatility_by_period["3M"].current_quartile = "Q4 (High)"
  /\ IsNaN(ret.frame.columns["1M"][22]) /\ ~IsNaN(ret.frame.columns["1M"][23])

\* The records of the input that have a date that can be parsed and a numeric
\* close.
ValidRecords ==
  {k \in 1..Len(args.price_data) :
     /\ args.price_data[k].Date.kind \in {"ymd", "ymd_hms"}
     /\ args.price_data[k].Close.kind = "num"}
LatestDefined(p) == ~IsNaN(ret.frame.columns[p][Len(ret.frame.columns[p])])
\* What C27 says of a call that returned.
SilentOmission ==
  IF Cardinality(ValidRecords) < MinRecords
  THEN ret.none
  ELSE /\ ~ret.none
       /\ ret.num_data_points = Cardinality(ValidRecords)
       /\ \A p \in {"1M", "3M"} :
            /\ p \in DOMAIN ret.volatility_by_period <=> p \in DOMAIN ret.timeseries
            /\ p \in DOMAIN ret.volatility_by_period <=> LatestDefined(p)
       /\ (/\ Cardinality(ValidRecords) = MinRecords
           /\ \A k \in ValidRecords : args.price_data[k].Close.v > 0)
            => DOMAIN ret.volatility_by_period = {"1M"}

\* C27: process_ticker never ends by an exception; with fewer than 63 records
\* left after dropping unparseable dates and non-numeric closes it returns
\* None; otherwise, for each of 1M and 3M, the statistics block and the
\* timeseries are both present or both absent, present exactly when the
\* latest rolling volatility of the window is defined (with exactly 63 valid
\* records of positive closes: 1M and no 3M).
C27_InsufficientDataOmitted ==
  (pc = "return" /\ "price_data" \in DOMAIN args) =>
    ret.raised = "none" /\ SilentOmission

\* C27 for inputs without a date made of blanks only.
C27_NoBlankDate ==
  (/\ pc = "return" /\ "price_data" \in DOMAIN args
   /\ \A k \in 1..Len(args.price_data) : args.price_data[k].Date.kind # "blank") =>
    ret.raised = "none" /\ SilentOmission

\* The observations of a daily-shaped info in named-timeseries shape: for
\* each window, an entry for each record that has a date and a value for
\* the window, in the order of the records.
AsTimeseries(info) ==
  LET Entries(w) ==
        LET has == SelectSeq(info["daily"], LAMBDA r : {"date", w} \subseteq DOMAIN r)
        IN [k \in 1..Len(has) |-> [date |-> has[k]["date"], volatility |-> has[k][w]]]
  IN [k \in (DOMAIN info \ {"daily"}) \cup {"timeseries"} |->
        IF k = "timeseries" THEN [w \in {"1M", "1Y", "3M"} |-> Entries(w)] ELSE info[k]]

IsDailyInput == Len(args.vol_ratios) = 1 /\ "daily" \in DOMAIN args.vol_ratios[1][2]

\* C25: the matrix built from a symbol in daily-record shape is the matrix
\* built from the same observations in named-timeseries shape: the same
\* rows, columns and cells, the ratio column included.
C25_ShapesAgree ==
  (pc = "return" /\ IsDailyInput) =>
    ret = BuildTimeseriesDf(<< <<args.vol_ratios[1][1], AsTimeseries(args.vol_ratios[1][2])>> >>,
                            args.metrics)

\* C25 for daily input in which no date has more than one record.
C25_OneRecordPerDate ==
  (/\ pc = "return" /\ IsDailyInput
   /\ \A x, y \in 1..Len(args.vol_ratios[1][2]["daily"]) :
        LET daily == args.vol_ratios[1][2]["daily"]
        IN (x # y /\ "date" \in DOMAIN daily[x] /\ "date" \in DOMAIN daily[y])
             => daily[x]["date"] # daily[y]["date"]) =>
    ret = BuildTimeseriesDf(<< <<args.vol_ratios[1][1], AsTimeseries(args.vol_ratios[1][2])>> >>,
                            args.metrics)

\* C26: in every row of the matrix, for every ticker, a populated ratio
\* cell comes with populated 1M and 1Y cells, a nonzero 1Y, and equals the
\* row's 1M / 1Y.
C26_RatioMatchesRow ==
  pc = "return" =>
    \A d \in DOMAIN ret.cell, t \in {"A", "B"} :
      LET ratio == CellOf(ret, d, ColName(t, "ratio"))
          short == CellOf(ret, d, ColName(t, "1M"))
          long == CellOf(ret, d, ColName(t, "1Y"))
      IN ~IsNaN(ratio) =>
           /\ ~IsNaN(short) /\ ~IsNaN(long) /\ long # 0
           /\ ratio = Ratio(short, long)

\* C26 for input in which no ticker has two records or entries on one date.
C26_NoDateReportedTwice ==
  (pc = "return" /\ OneSymbolUniqueDates) =>
    \A d \in DOMAIN ret.cell :
      LET ratio == CellOf(ret, d, ColName("A", "ratio"))
          short == CellOf(ret, d, ColName("A", "1M"))
          long == CellOf(ret, d, ColName("A", "1Y"))
      IN ~IsNaN(ratio) =>
           /\ ~IsNaN(short) /\ ~IsNaN(long) /\ long # 0
           /\ ratio = Ratio(short, long)

\* p <= q on percentiles; false when either is undefined.
PctLeqPct(p, q) == p.d > 0 /\ q.d > 0 /\ p.n * q.d <= q.n * p.d
\* The ceiling of the bucket a label names.
CeilingOf(b, label) == CHOOSE c \in Keys(b) : Lookup(b, c) = label

\* C28: within one series, distance a <= distance b implies percentile(a) <=
\* percentile(b) and ceiling(regime(a)) <= ceiling(regime(b)); observations
\* with equal distances get the same percentile and the same regime.
C28_RegimeMonotoneInDistance ==
  pc = "return" =>
    \A j, k \in 1..Len(ret) :
      LET a == args.distances[j]
          b == args.distances[k]
          bk == Buckets(args.buckets)
      IN /\ (FLess(a, b) \/ (~IsNaN(a) /\ a = b)) =>
              /\ PctLeqPct(ret[j].percentile, ret[k].percentile)
              /\ CeilingOf(bk, ret[j].regime) <= CeilingOf(bk, ret[k].regime)
         /\ (~IsNaN(a) /\ a = b) =>
              /\ ret[j].percentile.n * ret[k].percentile.d
                   = ret[k].percentile.n * ret[j].percentile.d
              /\ ret[j].regime = ret[k].regime

C28_Witness ==
  /\ pc = "return" /\ args.buckets = << >> /\ Len(ret) = 4
  /\ args.distances[1] = args.distances[3] /\ FLess(args.distances[1], args.distances[2])
  /\ FLess(args.distances[4], args.distances[1])
  /\ ret[4].regime = "Normal" /\ ret[1].regime = "Elevated" /\ ret[2].regime = "Extreme"

\* ------------------------------------------ Get_quotes.interactive_mode
\* A text is a sequence of one-character strings.  The wizard's local
\* variables, and what it has done, are the record `ret`; `pc` is where the
\* function stands ("loop", "collector", "save", "extras", "done",
\* "aborted"); steps are numbered ten times their number in the code (2.5 is
\* 25); None is the empty text, and 0 for opt_exp_count.
UpperLetters == <<"A", "B", "C", "D", "E", "F", "G", "H", "I", "J", "K", "L", "M", "N", "O", "P", "Q", "R", "S", "T", "U", "V", "W", "X", "Y", "Z">>
LowerLetters == <<"a", "b", "c", "d", "e", "f", "g", "h", "i", "j", "k", "l", "m", "n", "o", "p", "q", "r", "s", "t", "u", "v", "w", "x", "y", "z">>
Digits == <<"0", "1", "2", "3", "4", "5", "6", "7", "8", "9">>
IndexIn(seq, c) == IF \E k \in 1..Len(seq) : seq[k] = c
                   THEN CHOOSE k \in 1..Len(seq) : seq[k] = c ELSE 0

\* str.lower(), str.upper()
Lower(text) ==
  SubSeq([k \in 1..Len(text) |->
            IF IndexIn(UpperLetters, text[k]) # 0
            THEN LowerLetters[IndexIn(UpperLetters, text[k])] ELSE text[k]], 1, Len(text))
Upper(text) ==
  SubSeq([k \in 1..Len(text) |->
            IF IndexIn(LowerLetters, text[k]) # 0
            THEN UpperLetters[IndexIn(LowerLetters, text[k])] ELSE text[k]], 1, Len(text))

\* str.strip(): the blanks at both ends removed.
RECURSIVE Strip(_)
Strip(text) ==
  IF text = << >> THEN text
  ELSE IF Head(text) = " " THEN Strip(Tail(text))
  ELSE IF text[Len(text)] = " " THEN Strip(SubSeq(text, 1, Len(text) - 1))
  ELSE text

\* str.split(): the words between runs of blanks.
RECURSIVE Split(_)
Split(text) ==
  IF text = << >> THEN << >>
  ELSE IF Head(text) = " " THEN Split(Tail(text))
  ELSE LET blanks == {k \in 1..Len(text) : text[k] = " "}
           stop == IF blanks = {} THEN Len(text) + 1
                   ELSE CHOOSE k \in blanks : \A j \in blanks : k <= j
       IN <<SubSeq(text, 1, stop - 1)>> \o Split(SubSeq(text, stop, Len(text)))

AbortWords == {<<"q", "u", "i", "t">>, <<"e", "x", "i", "t">>, <<"a", "b", "o", "r", "t">>, <<"q">>}
BackWords == {<<"b", "a", "c", "k">>, <<"b">>}

IsNumber(text) == text # << >> /\ \A k \in 1..Len(text) : IndexIn(Digits, text[k]) # 0
RECURSIVE NumberOf(_)
NumberOf(text) ==
  IF text = << >> THEN 0
  ELSE 10 * NumberOf(SubSeq(text, 1, Len(text) - 1)) + IndexIn(Digits, text[Len(text)]) - 1

\* int(ans) for a decimal numeral with an optional sign; ok is FALSE where
\* int raises ValueError.
IntOf(text) ==
  IF text # << >> /\ Head(text) \in {"-", "+"} /\ IsNumber(Tail(text))
  THEN [ok |-> TRUE, value |-> IF Head(text) = "-" THEN -NumberOf(Tail(text))
                               ELSE NumberOf(Tail(text))]
  ELSE IF IsNumber(text) THEN [ok |-> TRUE, value |-> NumberOf(text)]
  ELSE [ok |-> FALSE, value |-> 0]

DaysIn(year, month) ==
  IF month = 2
  THEN (IF year % 4 = 0 /\ (year % 100 # 0 \/ year % 400 = 0) THEN 29 ELSE 28)
  ELSE IF month \in {4, 6, 9, 11} THEN 30 ELSE 31

\* datetime.strptime(ans, '%Y-%m-%d') succeeds: four digits, '-', a month of
\* one or two digits, '-', a day of one or two digits, naming a date of the
\* calendar.  (The leading zero of %m and %d is optional.)
Strptime(text) ==
  \E a, b \in 1..2 :
    /\ Len(text) = 6 + a + b
    /\ text[5] = "-" /\ text[6 + a] = "-"
    /\ IsNumber(SubSeq(text, 1, 4))
    /\ IsNumber(SubSeq(text, 6, 5 + a))
    /\ IsNumber(SubSeq(text, 7 + a, 6 + a + b))
    /\ LET year == NumberOf(SubSeq(text, 1, 4))
           month == NumberOf(SubSeq(text, 6, 5 + a))
           day == NumberOf(SubSeq(text, 7 + a, 6 + a + b))
       IN /\ year >= 1 /\ month \in 1..12
          /\ day >= 1 /\ day <= DaysIn(year, month)

\* date.today().strftime('%Y-%m-%d')
Today == <<"2", "0", "2", "6", "-", "1", "1", "-", "0", "4">>

Locals0 ==
  [step |-> 0, tickers |-> << >>, start_date |-> << >>, end_date |-> << >>,
   interval |-> << >>, columns |-> << >>,
   want_price |-> FALSE, want_options |-> FALSE, want_financial |-> FALSE,
   opt_type |-> <<"b", "o", "t", "h">>, opt_exp_count |-> 0,
   want_earnings |-> FALSE, want_balance_sheet |-> FALSE, want_financials |-> FALSE,
   financial_granularity |-> <<"b", "o", "t", "h">>, save_input |-> << >>,
   created |-> FALSE,
   collector |-> [tickers |-> << >>, start_date |-> << >>, end_date |-> << >>,
                  interval |-> << >>, data_points |-> << >>],
   fetched |-> FALSE, extras |-> FALSE, saved |-> FALSE]

\* The question the next input() asks: steps 6 and 7 ask nothing when price
\* data is not selected and pass on to the review (step 8); 90 is the save
\* prompt, which follows the review; -1 when nothing more is asked.
AskedNext(locals, at) ==
  IF at = "loop"
  THEN (IF locals.step \in {60, 70} /\ ~locals.want_price THEN 80 ELSE locals.step)
  ELSE IF at \in {"collector", "save"} THEN 90 ELSE -1

\* The questions answered on the way to the one being asked, oldest first.
Truncate(path, q) ==
  IF \E k \in 1..Len(path) : path[k] = q
  THEN SubSeq(path, 1, (CHOOSE k \in 1..Len(path) : path[k] = q) - 1)
  ELSE path

\* `args` keeps the last line typed, the question it answered and the path
\* to that question; `visited` is the path to the question asked next.
Typed(q, raw) ==
  /\ args' = [at |-> q, ans |-> raw, path |-> visited]
  /\ visited' = IF Strip(raw) \in BackWords
                THEN Truncate(visited, AskedNext(ret', pc'))
                ELSE IF AskedNext(ret', pc') \notin {q, -1} THEN Append(visited, q)
                ELSE visited
  /\ UNCHANGED <<df, window, i, distances, dates>>

\* The lines typed: at every question quit, back and an empty line, and
\* answers of the question.
CommonAnswers == {<<"q", "u", "i", "t">>, <<"b", "a", "c", "k">>, <<>>}
TickerAnswers == CommonAnswers \cup {<<"a", "b", " ", "c">>}
DataAnswers == CommonAnswers \cup {<<" ", "b", " ">>, <<"o", "p", "t", "i", "o", "n", "s">>, <<"f", "i", "n", "a", "n", "c", "i", "a", "l">>, <<"o", "p", "t", "i", "o", "n", "s", " ", "f", "i", "n", "a", "n", "c", "i", "a", "l">>, <<"p", "r", "i", "c", "e", " ", "f", "i", "n", "a", "n", "c", "i", "a", "l">>}
OptionsTypeAnswers == CommonAnswers \cup {<<"c", "a", "l", "l", "s">>}
ExpirationAnswers == CommonAnswers \cup {<<"2">>}
DatasetAnswers == CommonAnswers \cup {<<"e", "a", "r", "n", "i", "n", "g", "s">>}
GranularityAnswers == CommonAnswers \cup {<<"a", "n", "n", "u", "a", "l">>}
DateAnswers == CommonAnswers \cup {<<"2", "0", "2", "4", "-", "0", "1", "-", "3", "1">>, <<"2", "0", "2", "4", "-", "2", "-", "5">>, <<"2", "0", "2", "3", "-", "0", "2", "-", "2", "9">>}
IntervalAnswers == CommonAnswers \cup {<<"1", "m", "o">>}
ColumnAnswers == CommonAnswers \cup {<<"Q">>, <<"C", "l", "o", "s", "e">>}
ReviewAnswers == CommonAnswers \cup {<<"Q">>, <<"y", "e", "s">>}
SaveAnswers == CommonAnswers \cup {<<"y", "e", "s">>, <<"m", "a", "y", "b", "e">>}

InitWizard ==
  /\ df = << >> /\ window = 0 /\ i = 0 /\ distances = << >> /\ dates = << >>
  /\ visited = << >>
  /\ pc = "loop"
  /\ args = [at |-> -1, ans |-> << >>, path |-> << >>]
  /\ ret = Locals0

\* step 0 (lines 610-623)
AskTickers ==
  /\ pc = "loop" /\ ret.step = 0
  /\ \E raw \in TickerAnswers :
       /\ LET ans == Strip(raw)
              low == Lower(ans)
          IN IF low \in AbortWords THEN pc' = "aborted" /\ ret' = ret
             ELSE IF low \in BackWords THEN pc' = pc /\ ret' = ret
             ELSE IF ans = << >> THEN pc' = pc /\ ret' = ret
             ELSE /\ pc' = pc
                  /\ ret' = [ret EXCEPT !.tickers = [k \in 1..Len(Split(ans)) |->
                                                       Upper(Split(ans)[k])],
                                        !.step = 10]
       /\ Typed(0, raw)

\* step 1 (lines 626-643)
AskData ==
  /\ pc = "loop" /\ ret.step = 10
  /\ \E raw \in DataAnswers :
       /\ LET ans == Lower(Strip(raw))
              low == Lower(ans)
              tokens == {Split(ans)[k] : k \in 1..Len(Split(ans))}
              price == IF ans = << >> THEN TRUE
                       ELSE <<"p", "r", "i", "c", "e">> \in tokens
                              \/ (<<"o", "p", "t", "i", "o", "n", "s">> \notin tokens /\ <<"f", "i", "n", "a", "n", "c", "i", "a", "l">> \notin tokens)
              options == ans # << >> /\ <<"o", "p", "t", "i", "o", "n", "s">> \in tokens
              financial == ans # << >> /\ <<"f", "i", "n", "a", "n", "c", "i", "a", "l">> \in tokens
          IN IF low \in AbortWords THEN pc' = "aborted" /\ ret' = ret
             ELSE IF low \in BackWords THEN pc' = pc /\ ret' = [ret EXCEPT !.step = 0]
             ELSE /\ pc' = pc
                  /\ ret' = [ret EXCEPT !.want_price = price, !.want_options = options,
                                        !.want_financial = financial,
                                        !.step = IF options THEN 20
                                                 ELSE IF financial THEN 30 ELSE 40]
       /\ Typed(10, raw)

\* step 2 (lines 646-657)
AskOptionsType ==
  /\ pc = "loop" /\ ret.step = 20
  /\ \E raw \in OptionsTypeAnswers :
       /\ LET ans == Lower(Strip(raw))
              low == Lower(ans)
          IN IF low \in AbortWords THEN pc' = "aborted" /\ ret' = ret
             ELSE IF low \in BackWords THEN pc' = pc /\ ret' = [ret EXCEPT !.step = 10]
             ELSE /\ pc' = pc
                  /\ ret' = [ret EXCEPT !.opt_type = IF ans \in {<<"c", "a", "l", "l", "s">>, <<"p", "u", "t", "s">>, <<"b", "o", "t", "h">>}
                                                     THEN ans ELSE <<"b", "o", "t", "h">>,
                                        !.step = 25]
       /\ Typed(20, raw)

\* step 2.5 (lines 660-678)
AskExpirations ==
  /\ pc = "loop" /\ ret.step = 25
  /\ \E raw \in ExpirationAnswers :
       /\ LET ans == Lower(Strip(raw))
              low == Lower(ans)
              count == IF ans = << >> \/ ans = <<"a", "l", "l">> THEN 0
                       ELSE IF IntOf(ans).ok
                       THEN (IF IntOf(ans).value > 1 THEN IntOf(ans).value ELSE 1)
                       ELSE 0
          IN IF low \in AbortWords THEN pc' = "aborted" /\ ret' = ret
             ELSE IF low \in BackWords THEN pc' = pc /\ ret' = [ret EXCEPT !.step = 20]
             ELSE /\ pc' = pc
                  /\ ret' = [ret EXCEPT !.opt_exp_count = count,
                                        !.step = IF ret.want_financial THEN 30 ELSE 40]
       /\ Typed(25, raw)

\* step 3 (lines 681-706)
AskDatasets ==
  /\ pc = "loop" /\ ret.step = 30
  /\ \E raw \in DatasetAnswers :
       /\ LET ans == Lower(Strip(raw))
              low == Lower(ans)
              tokens == {Split(ans)[k] : k \in 1..Len(Split(ans))}
              none == /\ <<"e", "a", "r", "n", "i", "n", "g", "s">> \notin tokens /\ <<"b", "a", "l", "a", "n", "c", "e", "-", "s", "h", "e", "e", "t">> \notin tokens
                      /\ <<"f", "i", "n", "a", "n", "c", "i", "a", "l", "s">> \notin tokens
              every == ans = << >> \/ ans = <<"a", "l", "l">> \/ none
          IN IF low \in AbortWords THEN pc' = "aborted" /\ ret' = ret
             ELSE IF low \in BackWords
             THEN pc' = pc /\ ret' = [ret EXCEPT !.step = IF ret.want_options THEN 25 ELSE 10]
             ELSE /\ pc' = pc
                  /\ ret' = [ret EXCEPT !.want_earnings = every \/ <<"e", "a", "r", "n", "i", "n", "g", "s">> \in tokens,
                                        !.want_balance_sheet =
                                           every \/ <<"b", "a", "l", "a", "n", "c", "e", "-", "s", "h", "e", "e", "t">> \in tokens,
                                        !.want_financials = every \/ <<"f", "i", "n", "a", "n", "c", "i", "a", "l", "s">> \in tokens,
                                        !.step = 35]
       /\ Typed(30, raw)

\* step 3.5 (lines 709-720)
AskGranularity ==
  /\ pc = "loop" /\ ret.step = 35
  /\ \E raw \in GranularityAnswers :
       /\ LET ans == Lower(Strip(raw))
              low == Lower(ans)
          IN IF low \in AbortWords THEN pc' = "aborted" /\ ret' = ret
             ELSE IF low \in BackWords THEN pc' = pc /\ ret' = [ret EXCEPT !.step = 30]
             ELSE /\ pc' = pc
                  /\ ret' = [ret EXCEPT !.financial_granularity =
                                           IF ans \in {<<"a", "n", "n", "u", "a", "l">>, <<"q", "u", "a", "r", "t", "e", "r", "l", "y">>, <<"b", "o", "t", "h">>} THEN ans ELSE <<"b", "o", "t", "h">>,
                                        !.step = 40]
       /\ Typed(35, raw)

\* step 4 (lines 723-739)
AskStartDate ==
  /\ pc = "loop" /\ ret.step = 40
  /\ \E raw \in DateAnswers :
       /\ LET ans == Strip(raw)
              low == Lower(ans)
          IN IF low \in AbortWords THEN pc' = "aborted" /\ ret' = ret
             ELSE IF low \in BackWords
             THEN pc' = pc
                  /\ ret' = [ret EXCEPT !.step = IF ret.want_financial THEN 30
                                                 ELSE IF ret.want_options THEN 25 ELSE 10]
             ELSE IF Strptime(ans)
             THEN pc' = pc /\ ret' = [ret EXCEPT !.start_date = ans, !.step = 50]
             ELSE pc' = pc /\ ret' = ret
       /\ Typed(40, raw)

\* step 5 (lines 741-761)
AskEndDate ==
  /\ pc = "loop" /\ ret.step = 50
  /\ \E raw \in DateAnswers :
       /\ LET ans == Strip(raw)
              low == Lower(ans)
          IN IF low \in AbortWords THEN pc' = "aborted" /\ ret' = ret
             ELSE IF low \in BackWords THEN pc' = pc /\ ret' = [ret EXCEPT !.step = 40]
             ELSE IF ans = << >>
             THEN pc' = pc /\ ret' = [ret EXCEPT !.end_date = Today, !.step = 60]
             ELSE IF Strptime(ans)
             THEN pc' = pc /\ ret' = [ret EXCEPT !.end_date = ans, !.step = 60]
             ELSE pc' = pc /\ ret' = ret
       /\ Typed(50, raw)

\* step 6 without price data (lines 763-767): no question.
SkipInterval ==
  /\ pc = "loop" /\ ret.step = 60 /\ ~ret.want_price
  /\ ret' = [ret EXCEPT !.step = 80]
  /\ UNCHANGED <<mahaVars, pc, args>>

\* step 6 (lines 768-782)
AskInterval ==
  /\ pc = "loop" /\ ret.step = 60 /\ ret.want_price
  /\ \E raw \in IntervalAnswers :
       /\ LET ans == Lower(Strip(raw))
              low == Lower(ans)
          IN IF low \in AbortWords THEN pc' = "aborted" /\ ret' = ret
             ELSE IF low \in BackWords THEN pc' = pc /\ ret' = [ret EXCEPT !.step = 50]
             ELSE /\ pc' = pc
                  /\ ret' = [ret EXCEPT !.interval = IF ans \in {<<"1", "d">>, <<"1", "m", "o">>}
                                                     THEN ans ELSE <<"1", "d">>,
                                        !.step = 70]
       /\ Typed(60, raw)

\* step 7 without price data (lines 785-790): no question.
SkipColumns ==
  /\ pc = "loop" /\ ret.step = 70 /\ ~ret.want_price
  /\ ret' = [ret EXCEPT !.columns = << >>, !.step = 80]
  /\ UNCHANGED <<mahaVars, pc, args>>

\* step 7 (lines 791-799): the answer is compared as typed, not lowered.
AskColumns ==
  /\ pc = "loop" /\ ret.step = 70 /\ ret.want_price
  /\ \E raw \in ColumnAnswers :
       /\ LET ans == Strip(raw)
          IN IF ans \in AbortWords THEN pc' = "aborted" /\ ret' = ret
             ELSE IF ans \in BackWords THEN pc' = pc /\ ret' = [ret EXCEPT !.step = 60]
             ELSE /\ pc' = pc
                  /\ ret' = [ret EXCEPT !.columns = Split(ans), !.step = 80]
       /\ Typed(70, raw)

\* step 8 (lines 802-829): any other answer leaves the loop.
Review ==
  /\ pc = "loop" /\ ret.step = 80
  /\ \E raw \in ReviewAnswers :
       /\ LET ans == Lower(Strip(raw))
          IN IF ans \in AbortWords THEN pc' = "aborted" /\ ret' = ret
             ELSE IF ans \in BackWords THEN pc' = pc /\ ret' = [ret EXCEPT !.step = 70]
             ELSE pc' = "collector" /\ ret' = ret
       /\ Typed(80, raw)

\* Lines 831-843: the collector is created; price data is fetched if selected.
CreateCollector ==
  /\ pc = "collector"
  /\ ret' = [ret EXCEPT !.created = TRUE,
                        !.collector = [tickers |-> ret.tickers, start_date |-> ret.start_date,
                                       end_date |-> ret.end_date, interval |-> ret.interval,
                                       data_points |-> ret.columns],
                        !.fetched = ret.want_price]
  /\ pc' = "save"
  /\ UNCHANGED <<mahaVars, args>>

\* The save prompt (lines 846-857).
AskSave ==
  /\ pc = "save"
  /\ \E raw \in SaveAnswers :
       /\ LET save_input == Lower(Strip(raw))
          IN IF save_input \in AbortWords THEN pc' = "aborted" /\ ret' = ret
             ELSE IF save_input \in BackWords THEN pc' = pc /\ ret' = [ret EXCEPT !.step = 50]
             ELSE IF save_input \in {<<"y", "e", "s">>, <<"y">>, <<"n", "o">>, <<"n">>, <<>>}
             THEN /\ pc' = IF save_input \in {<<"y", "e", "s">>, <<"y">>} THEN "extras" ELSE "done"
                  /\ ret' = [ret EXCEPT !.save_input = save_input]
             ELSE pc' = pc /\ ret' = ret
       /\ Typed(90, raw)

\* Lines 859-878: the extras are fetched and the data saved.
SaveData ==
  /\ pc = "extras"
  /\ ret' = [ret EXCEPT !.extras = ret.want_options \/ ret.want_financial, !.saved = TRUE]
  /\ pc' = "done"
  /\ UNCHANGED <<mahaVars, args>>

NextWizard ==
  \/ AskTickers \/ AskData \/ AskOptionsType \/ AskExpirations \/ AskDatasets
  \/ AskGranularity \/ AskStartDate \/ AskEndDate \/ SkipInterval \/ AskInterval
  \/ SkipColumns \/ AskColumns \/ Review \/ CreateCollector \/ AskSave \/ SaveData
SpecWizard == InitWizard /\ [][NextWizard]_vars

\* The last line typed was 'back' (or 'b'), and a question follows.
TypedBack == args.at # -1 /\ Strip(args.ans) \in BackWords /\ pc \in {"loop", "save"}

\* The question answered immediately before the one 'back' was typed at, on
\* the path taken; at the first question, the first question.
QuestionBefore ==
  IF args.path = << >> THEN args.at ELSE args.path[Len(args.path)]

\* C29: after 'back' typed at a question, the question asked next is the one
\* the user answered immediately before it on the path taken (the first
\* question again when typed at the first question).
C29_BackReturnsToPreviousQuestion ==
  TypedBack => AskedNext(ret, pc) = QuestionBefore

\* C29 away from the start-date question with financial data selected, the
\* review without price data, and the save prompt.
C29_BackElsewhere ==
  (/\ TypedBack
   /\ ~(args.at = 40 /\ ret.want_financial)
   /\ ~(args.at = 80 /\ ~ret.want_price)
   /\ args.at # 90) => AskedNext(ret, pc) = QuestionBefore

\* A text in YYYY-MM-DD format: four digits, '-', two digits, '-', two digits.
IsIsoDate(text) ==
  /\ Len(text) = 10 /\ text[5] = "-" /\ text[8] = "-"
  /\ IsNumber(SubSeq(text, 1, 4)) /\ IsNumber(SubSeq(text, 6, 7))
  /\ IsNumber(SubSeq(text, 9, 10))

\* An abort word typed in lowercase at a question of the loop ended the
\* wizard with no collector created, nothing fetched and nothing saved.
AbortEndsWizard ==
  (args.at \in 0..80 /\ Strip(args.ans) \in AbortWords) =>
    pc = "aborted" /\ ~ret.created /\ ~ret.fetched /\ ~ret.extras /\ ~ret.saved

\* C30: when the question loop is left to create the collector, tickers is
\* non-empty, start_date and end_date are strings in YYYY-MM-DD format and,
\* if price data is selected, interval is '1d' or '1mo'; and an abort word
\* typed in lowercase at a question ends the wizard without creating the
\* collector, fetching or saving.
C30_CollectorInputsValid ==
  /\ pc = "collector" =>
       /\ ret.tickers # << >>
       /\ IsIsoDate(ret.start_date) /\ IsIsoDate(ret.end_date)
       /\ ret.want_price => ret.interval \in {<<"1", "d">>, <<"1", "m", "o">>}
  /\ AbortEndsWizard

\* C30 with "accepted by strptime('%Y-%m-%d')" in place of "in YYYY-MM-DD
\* format".
C30_CollectorInputsParsed ==
  /\ pc = "collector" =>
       /\ ret.tickers # << >>
       /\ Strptime(ret.start_date) /\ Strptime(ret.end_date)
       /\ ret.want_price => ret.interval \in {<<"1", "d">>, <<"1", "m", "o">>}
  /\ AbortEndsWizard
====
